---- MODULE Spec2Model ----
(***************************************************************************)
(* The natural-language-to-SQL query engine of kartoza-pg-ai               *)
(* (internal/llm/engine.go): QueryEngine.GenerateSQL with its cascade of   *)
(* matchers, QueryEngine.findTable, and QueryEngine.SetSchema; and, of the  *)
(* terminal interface (internal/tui), the query screen that calls the      *)
(* engine and keeps the conversation, the saved query history of the       *)
(* configuration, and the application model's handling of schema           *)
(* harvesting.                                                             *)
(*                                                                         *)
(* A Go string is modelled as a sequence of one-character strings, so that *)
(* lower-casing, trimming, substring search and regular-expression         *)
(* matching are computed character by character as the Go code computes    *)
(* them.  Generated SQL is such a sequence too, built with the same        *)
(* literals the code passes to fmt.Sprintf.                                *)
(***************************************************************************)
EXTENDS Integers, Sequences, FiniteSets, TLC

VARIABLES
    schema,     \* QueryEngine.schema: the schema pointer (possibly nil)
    useNN,      \* QueryEngine.useNN
    nnTrainer,  \* QueryEngine.nnTrainer: "nil", "untrained" or "trained"
    pc,         \* where the caller of the engine is: "idle", "running", "done"
    call,       \* the call in flight or just returned, with its outcome
    QueryHistory,    \* Config.QueryHistory, most recent first
    MaxHistorySize,  \* Config.Settings.MaxHistorySize
    CachedSchemas,   \* Config.CachedSchemas: service name -> schema
    loading,    \* QueryModel.loading
    history,    \* QueryModel.history: the conversation, oldest first
    results,    \* QueryModel.results: the displayed results, possibly nil
    error,      \* QueryModel.error
    editor,     \* the text of the editor of the query screen
    db,         \* QueryModel.db: "nil" or "open"
    screen,         \* AppModel.screen
    pendingScreen,  \* AppModel.pendingScreen
    activeService,  \* AppModel.activeService ("nil" or a service name)
    activeSchema,   \* AppModel.activeSchema: a schema, possibly nil
    queryModel,     \* AppModel.query: the query model (its service and schema), possibly nil
    harvest,        \* AppModel.harvest: the harvest model (its command), possibly nil
    cmds,       \* the commands handed to the runtime that have not finished
    msgs,       \* the messages produced by commands and not yet delivered
    nextId,     \* the number of commands started so far
    cancelled,  \* history variable: the commands whose work the user cancelled
    added       \* history variable: the entries passed to AddQueryToHistory, in order

engineVars == <<schema, useNN, nnTrainer, pc, call>>
configVars == <<QueryHistory, MaxHistorySize, CachedSchemas>>
queryVars == <<loading, history, results, error, editor, db>>
appVars == <<screen, pendingScreen, activeService, activeSchema, queryModel, harvest>>
runtimeVars == <<cmds, msgs, nextId, cancelled, added>>
tuiVars == <<configVars, queryVars, appVars, runtimeVars>>

vars == <<engineVars, tuiVars>>

\* The engine on its own: no configuration, no screen, no command.
NoTui ==
    /\ QueryHistory = <<>> /\ MaxHistorySize = 100 /\ CachedSchemas = <<>>
    /\ loading = FALSE /\ history = <<>> /\ results = [nil |-> TRUE] /\ error = <<>>
    /\ editor = <<>> /\ db = "nil"
    /\ screen = "ScreenMenu" /\ pendingScreen = "ScreenMenu"
    /\ activeService = "nil" /\ activeSchema = [nil |-> TRUE, Tables |-> <<>>, HasPostGIS |-> FALSE]
    /\ queryModel = [nil |-> TRUE] /\ harvest = [nil |-> TRUE]
    /\ cmds = {} /\ msgs = {} /\ nextId = 0 /\ cancelled = {} /\ added = <<>>

\* ------------------------------------------------------------------------
\* Bounds of the model.

\* The longest table list of a schema.
MaxTables == 2

\* The most SetSchema calls that overlap one GenerateSQL call.
MaxSwaps == 1

\* ------------------------------------------------------------------------
\* Package strings.

Min(S) == CHOOSE x \in S : \A y \in S : x <= y
Max(S) == CHOOSE x \in S : \A y \in S : x >= y

\* A function on 1..n as the sequence of its values, each computed once.
AsSeq(f) == f \o <<>>

\* Body applied to value: a local variable of the code that is assigned once
\* and read several times.
With(value, Body(_)) == Body(value)

\* The first element of seq that is not empty ("" or nil); <<>> if none is.
FirstNonEmpty(seq) ==
    LET hits == {i \in 1..Len(seq) : seq[i] # <<>>}
    IN  IF hits = {} THEN <<>> ELSE seq[Min(hits)]

\* The elements of a finite set of integers in ascending order.
SortedSeq(S) ==
    AsSeq([k \in 1..Cardinality(S) |->
              CHOOSE x \in S : Cardinality({y \in S : y < x}) = k - 1])

UpperChars == <<"A","B","C","D","E","F","G","H","I","J","K","L","M","N","O","P","Q","R","S","T","U","V","W",
        "X","Y","Z">>
LowerChars == <<"a","b","c","d","e","f","g","h","i","j","k","l","m","n","o","p","q","r","s","t","u","v","w",
        "x","y","z">>
DigitChars == <<"0","1","2","3","4","5","6","7","8","9">>

Range(f) == {f[i] : i \in DOMAIN f}

UpperSet == Range(UpperChars)
DigitSet == Range(DigitChars)
\* \w of package regexp: [0-9A-Za-z_]
WordSet == Range(UpperChars) \cup Range(LowerChars) \cup Range(DigitChars) \cup {"_"}
\* unicode.IsSpace restricted to ASCII, which is also \s of package regexp
SpaceSet == {" ", "\t", "\n", "\r", "\f"}

IsUpper(c) == c \in UpperSet
IsDigit(c) == c \in DigitSet
IsWord(c) == c \in WordSet
IsSpace(c) == c \in SpaceSet

LowerOf == [c \in UpperSet |-> LowerChars[CHOOSE i \in 1..26 : UpperChars[i] = c]]
ToLowerChar(c) == IF c \in UpperSet THEN LowerOf[c] ELSE c

\* strings.ToLower
ToLower(s) == AsSeq([i \in 1..Len(s) |-> ToLowerChar(s[i])])

\* Whether sub occurs in s at position p (1-based).
HasPrefixAt(s, p, sub) ==
    /\ p + Len(sub) - 1 <= Len(s)
    /\ \A k \in 1..Len(sub) : s[p + k - 1] = sub[k]

\* strings.HasPrefix, strings.HasSuffix, strings.Contains
HasPrefix(s, prefix) == HasPrefixAt(s, 1, prefix)
HasSuffix(s, suffix) ==
    Len(suffix) <= Len(s) /\ HasPrefixAt(s, Len(s) - Len(suffix) + 1, suffix)
Contains(s, sub) == \E p \in 1..(Len(s) - Len(sub) + 1) : HasPrefixAt(s, p, sub)

\* strings.TrimSuffix
TrimSuffix(s, suffix) ==
    IF HasSuffix(s, suffix) THEN SubSeq(s, 1, Len(s) - Len(suffix)) ELSE s

\* strings.TrimSpace
TrimSpace(s) ==
    LET keep == {i \in 1..Len(s) : ~IsSpace(s[i])}
    IN  IF keep = {} THEN <<>> ELSE SubSeq(s, Min(keep), Max(keep))

\* strings.Trim(s, cutset)
Trim(s, cutset) ==
    LET keep == {i \in 1..Len(s) : s[i] \notin cutset}
    IN  IF keep = {} THEN <<>> ELSE SubSeq(s, Min(keep), Max(keep))

\* strings.Fields: the maximal runs of non-space characters, in order.
Fields(s) ==
    LET starts == {i \in 1..Len(s) : ~IsSpace(s[i]) /\ (i = 1 \/ IsSpace(s[i - 1]))}
        EndOf(i) == Min({j \in i..Len(s) : j = Len(s) \/ IsSpace(s[j + 1])})
        order == SortedSeq(starts)
    IN  AsSeq([k \in 1..Len(order) |-> SubSeq(s, order[k], EndOf(order[k]))])

\* strings.Join
RECURSIVE Join(_, _)
Join(elems, sep) ==
    IF elems = <<>> THEN <<>>
    ELSE IF Len(elems) = 1 THEN elems[1]
    ELSE elems[1] \o sep \o Join(Tail(elems), sep)

\* ------------------------------------------------------------------------
\* Package regexp.  A pattern is a tree of nodes.  FindStringSubmatch
\* returns the leftmost match, and among the matches that start there the
\* one a backtracking search finds first: alternatives in order, x? and
\* greedy repetitions preferring more, lazy repetitions preferring less.
\*
\* The search is computed by tables.  A table gives, for every position p
\* of the text (1 .. Len(text) + 1), the outcome of matching some part of
\* the pattern from p on: whether it matches, where the match ends, and
\* where each capturing group begins and ends.  The table of a node is
\* computed from the table of what follows the node (its continuation), so
\* that the outcome at p is the first success in the order of the
\* backtracking search.

Lit(s) == <<"lit", s>>              \* the literal text s
Cat(nodes) == <<"cat", nodes>>      \* concatenation
Alt(nodes) == <<"alt", nodes>>      \* a|b|c, earlier alternatives preferred
Opt(node) == <<"opt", node>>        \* x?  (greedy)
Plus(class) == <<"plus", class>>    \* c+  (greedy), c a character class
Star(class) == <<"star", class>>    \* c*  (greedy)
LazyPlus(class) == <<"lazyplus", class>>   \* c+?
Cap(k, node) == <<"cap", k, node>>  \* the k-th capturing group
Eol == <<"eol">>                    \* $

InClass(class, c) ==
    CASE class = "d" -> IsDigit(c)
      [] class = "w" -> IsWord(c)
      [] class = "s" -> IsSpace(c)
      [] class = "any" -> c # "\n"

\* The length of the longest run of class characters of text from position p.
RunLen(text, p, class) ==
    LET stop == {j \in p..Len(text) : ~InClass(class, text[j])}
    IN  IF stop = {} THEN Len(text) - p + 1 ELSE Min(stop) - p

ReFail == [ok |-> FALSE, end |-> 0, caps |-> <<>>]

\* The table of the empty pattern: it matches at every position, and no
\* group has taken part (<<0, 0>>).
ReDone(text, groups) ==
    AsSeq([p \in 1..(Len(text) + 1) |->
              [ok |-> TRUE, end |-> p, caps |-> AsSeq([g \in 1..groups |-> <<0, 0>>])]])

\* A repetition of class at p followed by K: the counts from least to the
\* length of the run, the longest that lets K succeed unless lazy.
ReRepeat(text, p, class, least, lazy, K) ==
    LET good == {k \in least..RunLen(text, p, class) : K[p + k].ok}
    IN  IF good = {} THEN ReFail
        ELSE IF lazy THEN K[p + Min(good)] ELSE K[p + Max(good)]

\* Group g is closed at each position of K, and opened at each position of T.
ReClose(g, K) ==
    AsSeq([q \in 1..Len(K) |-> IF K[q].ok THEN [K[q] EXCEPT !.caps[g][2] = q] ELSE ReFail])
ReOpen(g, T) ==
    AsSeq([p \in 1..Len(T) |-> IF T[p].ok THEN [T[p] EXCEPT !.caps[g][1] = p] ELSE ReFail])

\* ReNode: the table of node n followed by K.
\* ReNodes: the table of the nodes in order followed by K; Ks holds K and
\* the tables of the last nodes, built from the last node to the first.
RECURSIVE ReNode(_, _, _), ReNodes(_, _, _)
ReNode(text, n, K) ==
    CASE n[1] = "lit" ->
           AsSeq([p \in 1..Len(K) |->
                     IF HasPrefixAt(text, p, n[2]) THEN K[p + Len(n[2])] ELSE ReFail])
      [] n[1] = "cat" -> ReNodes(text, n[2], <<K>>)
      [] n[1] = "alt" ->
           With(AsSeq([j \in 1..Len(n[2]) |-> ReNode(text, n[2][j], K)]), LAMBDA A :
                AsSeq([p \in 1..Len(K) |->
                          LET good == {j \in 1..Len(A) : A[j][p].ok}
                          IN  IF good = {} THEN ReFail ELSE A[Min(good)][p]]))
      [] n[1] = "opt" ->
           With(ReNode(text, n[2], K), LAMBDA T :
                AsSeq([p \in 1..Len(K) |-> IF T[p].ok THEN T[p] ELSE K[p]]))
      [] n[1] = "plus" ->
           AsSeq([p \in 1..Len(K) |-> ReRepeat(text, p, n[2], 1, FALSE, K)])
      [] n[1] = "star" ->
           AsSeq([p \in 1..Len(K) |-> ReRepeat(text, p, n[2], 0, FALSE, K)])
      [] n[1] = "lazyplus" ->
           AsSeq([p \in 1..Len(K) |-> ReRepeat(text, p, n[2], 1, TRUE, K)])
      [] n[1] = "cap" -> ReOpen(n[2], ReNode(text, n[3], ReClose(n[2], K)))
      [] n[1] = "eol" ->
           AsSeq([p \in 1..Len(K) |-> IF p = Len(text) + 1 THEN K[p] ELSE ReFail])

ReNodes(text, nodes, Ks) ==
    IF Len(Ks) > Len(nodes) THEN Ks[Len(Ks)]
    ELSE ReNodes(text, nodes,
                 Append(Ks, ReNode(text, nodes[Len(nodes) - Len(Ks) + 1], Ks[Len(Ks)])))

\* Whether text holds everything a match of node demands somewhere: each
\* literal of a concatenation, a literal of some alternative, a character
\* of a class that must occur.  No match exists where this is false.
RECURSIVE Needs(_, _)
Needs(node, text) ==
    CASE node[1] = "lit" -> Contains(text, node[2])
      [] node[1] = "cat" -> \A j \in 1..Len(node[2]) : Needs(node[2][j], text)
      [] node[1] = "alt" -> \E j \in 1..Len(node[2]) : Needs(node[2][j], text)
      [] node[1] \in {"plus", "lazyplus"} -> \E i \in 1..Len(text) : InClass(node[2], text[i])
      [] node[1] = "cap" -> Needs(node[3], text)
      [] OTHER -> TRUE

\* The text of a group, "" for a group that took no part in the match.
ReGroup(text, cap) == IF cap = <<0, 0>> THEN <<>> ELSE SubSeq(text, cap[1], cap[2] - 1)

\* The match at the leftmost position where table T succeeds, followed by
\* its groups; <<>> (nil) when T succeeds nowhere.
ReLeftmost(text, T) ==
    LET starts == {p \in 1..Len(T) : T[p].ok}
    IN  IF starts = {} THEN <<>>
        ELSE <<SubSeq(text, Min(starts), T[Min(starts)].end - 1)>>
                 \o AsSeq([g \in 1..Len(T[Min(starts)].caps) |->
                              ReGroup(text, T[Min(starts)].caps[g])])

\* regexp.FindStringSubmatch.  re is [groups |-> number of groups, node |-> tree].
ReFind(re, text) ==
    IF ~Needs(re.node, text) THEN <<>>
    ELSE ReLeftmost(text, ReNode(text, re.node, ReDone(text, re.groups)))
\* regexp.MustCompile(pattern).FindStringSubmatch(text)
FindStringSubmatch(re, text) == ReFind(re, text)

\* ------------------------------------------------------------------------
\* Package config: the schema description the engine reads.

Column(name, isGeometry, geomType) ==
    [Name |-> name, IsGeometry |-> isGeometry, GeomType |-> geomType]

Table(schemaName, name, columns, comment) ==
    [Schema |-> schemaName, Name |-> name, Columns |-> columns, Comment |-> comment]

\* A *config.SchemaCache: nil, or a table list with the PostGIS flag.
NilSchema == [nil |-> TRUE, Tables |-> <<>>, HasPostGIS |-> FALSE]
SchemaCache(tables, hasPostGIS) ==
    [nil |-> FALSE, Tables |-> tables, HasPostGIS |-> hasPostGIS]

\* ------------------------------------------------------------------------
\* QueryEngine.findTable: <<>> for nil, else <<the table found>>.

\* The first table of tables, in order, whose index is in hits.
FirstOf(tables, hits) == IF hits = {} THEN <<>> ELSE <<tables[Min(hits)]>>

\* A findTable that tries the partial match before the exact one.
findTablePartialFirst(name, s) ==
    LET n == ToLower(name)
        T == s.Tables
        exact == {i \in DOMAIN T : ToLower(T[i].Name) = n}
        partial == {i \in DOMAIN T : Contains(ToLower(T[i].Name), n)}
        singular == TrimSuffix(n, <<"s">>)
        plural == {i \in DOMAIN T :
                      \/ ToLower(T[i].Name) = singular
                      \/ TrimSuffix(ToLower(T[i].Name), <<"s">>) = singular}
    IN  IF partial # {} THEN FirstOf(T, partial)
        ELSE IF exact # {} THEN FirstOf(T, exact)
        ELSE FirstOf(T, plural)

\* A findTable without the singular/plural step.
findTableNoPlural(name, s) ==
    LET n == ToLower(name)
        T == s.Tables
        exact == {i \in DOMAIN T : ToLower(T[i].Name) = n}
        partial == {i \in DOMAIN T : Contains(ToLower(T[i].Name), n)}
    IN  IF exact # {} THEN FirstOf(T, exact)
        ELSE FirstOf(T, partial)

findTable(name, s) ==
    LET n == ToLower(name)
        T == s.Tables
        \* Exact match
        exact == {i \in DOMAIN T : ToLower(T[i].Name) = n}
        \* Partial match
        partial == {i \in DOMAIN T : Contains(ToLower(T[i].Name), n)}
        \* Singular/plural handling
        singular == TrimSuffix(n, <<"s">>)
        plural == {i \in DOMAIN T :
                      \/ ToLower(T[i].Name) = singular
                      \/ TrimSuffix(ToLower(T[i].Name), <<"s">>) = singular}
    IN  IF exact # {} THEN FirstOf(T, exact)
        ELSE IF partial # {} THEN FirstOf(T, partial)
        ELSE FirstOf(T, plural)

\* ------------------------------------------------------------------------
\* fmt.Sprintf for formats whose verbs are all %s: pieces are the texts
\* around the verbs, so Len(pieces) = Len(args) + 1.
RECURSIVE Sprintf(_, _)
Sprintf(pieces, args) ==
    IF args = <<>> THEN pieces[1]
    ELSE pieces[1] \o args[1] \o Sprintf(Tail(pieces), Tail(args))

Re(groups, nodes) == [groups |-> groups, node |-> Cat(nodes)]

\* (\w+) and (\d+)? as the k-th group
Word(k) == Cap(k, Plus("w"))
OptDigits(k) == Opt(Cap(k, Plus("d")))
\* (?:a |b )?
OptLit(s) == Opt(Lit(s))
OptAlt(a, b) == Opt(Alt(<<Lit(a), Lit(b)>>))

\* ------------------------------------------------------------------------
\* QueryEngine.matchCountQuery

countPatterns == <<
    \* how many (?:rows|records|entries) (?:are )?in (?:the )?(?:table )?(\w+)
    Re(1, <<Lit(<<"h","o","w"," ","m","a","n","y"," ">>), Alt(<<Lit(<<"r","o","w","s">>), Lit(<<"r","e","c","o","r","d","s">>), Lit(<<"e","n","t","r","i","e","s">>)>>),
            Lit(<<" ">>), OptLit(<<"a","r","e"," ">>), Lit(<<"i","n"," ">>), OptLit(<<"t","h","e"," ">>),
            OptLit(<<"t","a","b","l","e"," ">>), Word(1)>>),
    \* count (?:of |all )?(?:rows |records )?(?:in )?(?:the )?(\w+)
    Re(1, <<Lit(<<"c","o","u","n","t"," ">>), OptAlt(<<"o","f"," ">>, <<"a","l","l"," ">>), OptAlt(<<"r","o","w","s"," ">>, <<"r","e","c","o","r","d","s"," ">>),
            OptLit(<<"i","n"," ">>), OptLit(<<"t","h","e"," ">>), Word(1)>>),
    \* (\w+) (?:row |record )?count
    Re(1, <<Word(1), Lit(<<" ">>), OptAlt(<<"r","o","w"," ">>, <<"r","e","c","o","r","d"," ">>), Lit(<<"c","o","u","n","t">>)>>),
    \* how many (\w+)
    Re(1, <<Lit(<<"h","o","w"," ","m","a","n","y"," ">>), Word(1)>>) >>

\* "SELECT '%s.%s' as table_name, COUNT(*) as row_count FROM \"%s\".\"%s\""
FmtRowCount == <<<<"S","E","L","E","C","T"," ","'">>, <<".">>, <<"'"," ","a","s"," ","t","a","b","l","e","_","n","a","m","e",","," ","C","O","U","N","T","(",
        "*",")"," ","a","s"," ","r","o","w","_","c","o","u","n","t"," ","F","R","O","M"," ","\"">>,
                 <<"\"",".","\"">>, <<"\"">>>>

\* The count format without the quotes around schema and table.
FmtCountUnquoted == <<<<"S","E","L","E","C","T"," ","C","O","U","N","T","(","*",")"," ","a","s"," ","c","o","u","n",
        "t"," ","F","R","O","M"," ">>, <<".">>, <<>>>>
\* "SELECT COUNT(*) as count FROM \"%s\".\"%s\""
FmtCount == <<<<"S","E","L","E","C","T"," ","C","O","U","N","T","(","*",")"," ","a","s"," ","c","o","u","n",
        "t"," ","F","R","O","M"," ","\"">>, <<"\"",".","\"">>, <<"\"">>>>

\* The row-count SELECT of every table of the schema, in schema order.
RowCountQueries(s) ==
    AsSeq([i \in 1..Len(s.Tables) |->
              Sprintf(FmtRowCount, <<s.Tables[i].Schema, s.Tables[i].Name,
                                     s.Tables[i].Schema, s.Tables[i].Name>>)])

\* The loop over patterns shared by the count, table-info and select
\* matchers: the table of the first pattern, in order, that matches the
\* query and whose group 1 findTable resolves; <<>> when there is none.
FirstResolved(patterns, query, s) ==
    FirstNonEmpty(AsSeq([i \in 1..Len(patterns) |->
        With(FindStringSubmatch(patterns[i], query), LAMBDA matches :
             IF Len(matches) > 1 THEN findTable(matches[2], s) ELSE <<>>)]))

\* fmt.Sprintf(format, table.Schema, table.Name) for the table found, ""
\* for none.
TableSQL(format, table) ==
    IF table # <<>> THEN Sprintf(format, <<table[1].Schema, table[1].Name>>) ELSE <<>>

\* A count matcher that tries the noun patterns before "each table" and
\* "all tables".
matchCountQueryPatternsFirst(query, s) ==
    With(FirstResolved(countPatterns, query, s), LAMBDA table :
         IF table # <<>> THEN TableSQL(FmtCount, table)
         ELSE IF /\ Contains(query, <<"e","a","c","h"," ","t","a","b","l","e">>) \/ Contains(query, <<"a","l","l"," ","t","a","b","l","e","s">>)
                 /\ Len(s.Tables) > 0
         THEN Join(RowCountQueries(s), <<" ","U","N","I","O","N"," ","A","L","L"," ">>) \o <<" ","O","R","D","E","R"," ","B","Y"," ","r","o","w","_","c","o","u","n","t"," ","D","E","S",
        "C">>
         ELSE <<>>)

matchCountQuery(query, s) ==
    \* Check for "all tables" or "each table" pattern
    IF /\ Contains(query, <<"e","a","c","h"," ","t","a","b","l","e">>) \/ Contains(query, <<"a","l","l"," ","t","a","b","l","e","s">>)
       /\ Len(s.Tables) > 0
    THEN Join(RowCountQueries(s), <<" ","U","N","I","O","N"," ","A","L","L"," ">>) \o <<" ","O","R","D","E","R"," ","B","Y"," ","r","o","w","_","c","o","u","n","t"," ","D","E","S",
        "C">>
    ELSE TableSQL(FmtCount, FirstResolved(countPatterns, query, s))

\* ------------------------------------------------------------------------
\* QueryEngine.matchShowQuery

showPatterns == <<
    \* show (?:me )?(?:the )?(?:first )?(\d+)? ?(?:rows |records )?(?:from |of )?(?:the )?(\w+)
    Re(2, <<Lit(<<"s","h","o","w"," ">>), OptLit(<<"m","e"," ">>), OptLit(<<"t","h","e"," ">>), OptLit(<<"f","i","r","s","t"," ">>),
            OptDigits(1), OptLit(<<" ">>), OptAlt(<<"r","o","w","s"," ">>, <<"r","e","c","o","r","d","s"," ">>),
            OptAlt(<<"f","r","o","m"," ">>, <<"o","f"," ">>), OptLit(<<"t","h","e"," ">>), Word(2)>>),
    \* list (?:the )?(?:first )?(\d+)? ?(\w+)
    Re(2, <<Lit(<<"l","i","s","t"," ">>), OptLit(<<"t","h","e"," ">>), OptLit(<<"f","i","r","s","t"," ">>),
            OptDigits(1), OptLit(<<" ">>), Word(2)>>),
    \* get (?:the )?(?:first )?(\d+)? ?(\w+)
    Re(2, <<Lit(<<"g","e","t"," ">>), OptLit(<<"t","h","e"," ">>), OptLit(<<"f","i","r","s","t"," ">>),
            OptDigits(1), OptLit(<<" ">>), Word(2)>>),
    \* display (?:the )?(?:first )?(\d+)? ?(\w+)
    Re(2, <<Lit(<<"d","i","s","p","l","a","y"," ">>), OptLit(<<"t","h","e"," ">>), OptLit(<<"f","i","r","s","t"," ">>),
            OptDigits(1), OptLit(<<" ">>), Word(2)>>) >>

\* regexp.MustCompile(`^\d+$`).MatchString(m)
IsNumber(m) == m # <<>> /\ \A i \in 1..Len(m) : IsDigit(m[i])

\* The loop over matches[1:] (i counts from 0 as in the code): a group of
\* digits sets the limit, any other non-empty group the table name.
RECURSIVE ShowGroups(_, _, _, _)
ShowGroups(matches, i, limit, tableName) ==
    IF i + 2 > Len(matches) THEN [limit |-> limit, tableName |-> tableName]
    ELSE LET m == matches[i + 2]
         IN  IF m = <<>> THEN ShowGroups(matches, i + 1, limit, tableName)
             ELSE IF IsNumber(m) THEN ShowGroups(matches, i + 1, m, tableName)
             ELSE IF i > 0 \/ ~IsNumber(matches[2])
                  THEN ShowGroups(matches, i + 1, limit, m)
             ELSE ShowGroups(matches, i + 1, limit, tableName)

\* "SELECT * FROM \"%s\".\"%s\" LIMIT %s"
FmtSelectLimit == <<<<"S","E","L","E","C","T"," ","*"," ","F","R","O","M"," ","\"">>, <<"\"",".","\"">>, <<"\""," ","L","I","M","I","T"," ">>, <<>>>>

\* The SELECT of a show query for the table found, "" for none.
ShowSQL(table, limit) ==
    IF table # <<>>
    THEN Sprintf(FmtSelectLimit, <<table[1].Schema, table[1].Name, limit>>)
    ELSE <<>>

\* A show pattern that ignores the captured number.
ShowPatternDefaultLimit(re, query, s) ==
    With(FindStringSubmatch(re, query), LAMBDA matches :
         IF Len(matches) > 1
         THEN With(ShowGroups(matches, 0, <<"5","0">>, <<>>), LAMBDA got :
                   IF got.tableName # <<>>
                   THEN ShowSQL(findTable(got.tableName, s), <<"5","0">>)
                   ELSE <<>>)
         ELSE <<>>)

\* What one show pattern yields: "" when it does not match, captures no
\* table name, or findTable does not resolve the name.
ShowPattern(re, query, s) ==
    With(FindStringSubmatch(re, query), LAMBDA matches :
         IF Len(matches) > 1
         THEN With(ShowGroups(matches, 0, <<"5","0">>, <<>>), LAMBDA got :
                   IF got.tableName # <<>>
                   THEN ShowSQL(findTable(got.tableName, s), got.limit)
                   ELSE <<>>)
         ELSE <<>>)

matchShowQuery(query, s) ==
    FirstNonEmpty(AsSeq([i \in 1..Len(showPatterns) |->
                            ShowPattern(showPatterns[i], query, s)]))

\* ------------------------------------------------------------------------
\* QueryEngine.matchTableQuery

colPatterns == <<
    \* what (?:are )?(?:the )?columns (?:in |of )?(?:the )?(\w+)
    Re(1, <<Lit(<<"w","h","a","t"," ">>), OptLit(<<"a","r","e"," ">>), OptLit(<<"t","h","e"," ">>), Lit(<<"c","o","l","u","m","n","s"," ">>),
            OptAlt(<<"i","n"," ">>, <<"o","f"," ">>), OptLit(<<"t","h","e"," ">>), Word(1)>>),
    \* describe (?:the )?(\w+)
    Re(1, <<Lit(<<"d","e","s","c","r","i","b","e"," ">>), OptLit(<<"t","h","e"," ">>), Word(1)>>),
    \* schema (?:of |for )?(?:the )?(\w+)
    Re(1, <<Lit(<<"s","c","h","e","m","a"," ">>), OptAlt(<<"o","f"," ">>, <<"f","o","r"," ">>), OptLit(<<"t","h","e"," ">>), Word(1)>>),
    \* (\w+) structure
    Re(1, <<Word(1), Lit(<<" ","s","t","r","u","c","t","u","r","e">>)>>) >>

\* The listing of all base tables with their column counts.
SqlListTables == <<"S","E","L","E","C","T"," ","t","a","b","l","e","_","s","c","h","e","m","a",","," ","t","a",
        "b","l","e","_","n","a","m","e",",","\n","\t","\t","\t","(","S","E","L","E","C","T"," ","C",
        "O","U","N","T","(","*",")"," ","F","R","O","M"," ","i","n","f","o","r","m","a","t","i","o",
        "n","_","s","c","h","e","m","a",".","c","o","l","u","m","n","s"," ","c"," ","W","H","E","R",
        "E"," ","c",".","t","a","b","l","e","_","s","c","h","e","m","a"," ","="," ","t",".","t","a",
        "b","l","e","_","s","c","h","e","m","a"," ","A","N","D"," ","c",".","t","a","b","l","e","_",
        "n","a","m","e"," ","="," ","t",".","t","a","b","l","e","_","n","a","m","e",")"," ","a","s",
        " ","c","o","l","u","m","n","_","c","o","u","n","t","\n","\t","\t","\t","F","R","O","M"," ",
        "i","n","f","o","r","m","a","t","i","o","n","_","s","c","h","e","m","a",".","t","a","b","l",
        "e","s"," ","t","\n","\t","\t","\t","W","H","E","R","E"," ","t","a","b","l","e","_","t","y",
        "p","e"," ","="," ","'","B","A","S","E"," ","T","A","B","L","E","'"," ","A","N","D"," ","t",
        "a","b","l","e","_","s","c","h","e","m","a"," ","N","O","T"," ","I","N"," ","(","'","p","g",
        "_","c","a","t","a","l","o","g","'",","," ","'","i","n","f","o","r","m","a","t","i","o","n",
        "_","s","c","h","e","m","a","'",")","\n","\t","\t","\t","O","R","D","E","R"," ","B","Y"," ",
        "t","a","b","l","e","_","s","c","h","e","m","a",","," ","t","a","b","l","e","_","n","a","m",
        "e">>

\* The information_schema.columns lookup of one table.
FmtColumns == <<<<"S","E","L","E","C","T"," ","c","o","l","u","m","n","_","n","a","m","e",","," ","d","a","t",
        "a","_","t","y","p","e",","," ","i","s","_","n","u","l","l","a","b","l","e",","," ","c","o",
        "l","u","m","n","_","d","e","f","a","u","l","t","\n","\t","\t","\t","\t","\t","F","R","O",
        "M"," ","i","n","f","o","r","m","a","t","i","o","n","_","s","c","h","e","m","a",".","c","o",
        "l","u","m","n","s","\n","\t","\t","\t","\t","\t","W","H","E","R","E"," ","t","a","b","l",
        "e","_","s","c","h","e","m","a"," ","="," ","'">>,
    <<"'"," ","A","N","D"," ","t","a","b","l","e","_","n","a","m","e"," ","="," ","'">>,
    <<"'","\n","\t","\t","\t","\t","\t","O","R","D","E","R"," ","B","Y"," ","o","r","d","i","n",
        "a","l","_","p","o","s","i","t","i","o","n">>>>

matchTableQuery(query, s) ==
    \* Table structure queries
    IF /\ Contains(query, <<"t","a","b","l","e","s">>)
       /\ \/ Contains(query, <<"l","i","s","t">>)
          \/ Contains(query, <<"s","h","o","w">>)
          \/ Contains(query, <<"w","h","a","t">>)
    THEN SqlListTables
    ELSE With(FirstResolved(colPatterns, query, s), LAMBDA table :
              \* Column info
              IF table # <<>> THEN TableSQL(FmtColumns, table)
              \* Largest tables
              ELSE IF /\ Contains(query, <<"l","a","r","g","e","s","t">>) /\ Contains(query, <<"t","a","b","l","e">>)
                      /\ Len(s.Tables) > 0
              THEN Join(RowCountQueries(s), <<" ","U","N","I","O","N"," ","A","L","L"," ">>)
                       \o <<" ","O","R","D","E","R"," ","B","Y"," ","r","o","w","_","c","o","u","n","t"," ","D","E","S",
        "C"," ","L","I","M","I","T"," ","1","0">>
              ELSE <<>>)

\* ------------------------------------------------------------------------
\* QueryEngine.matchSelectQuery

selectPatterns == <<
    \* select (?:all )?(?:from )?(\w+)
    Re(1, <<Lit(<<"s","e","l","e","c","t"," ">>), OptLit(<<"a","l","l"," ">>), OptLit(<<"f","r","o","m"," ">>), Word(1)>>),
    \* fetch (?:all )?(?:from )?(\w+)
    Re(1, <<Lit(<<"f","e","t","c","h"," ">>), OptLit(<<"a","l","l"," ">>), OptLit(<<"f","r","o","m"," ">>), Word(1)>>),
    \* retrieve (?:all )?(?:from )?(\w+)
    Re(1, <<Lit(<<"r","e","t","r","i","e","v","e"," ">>), OptLit(<<"a","l","l"," ">>), OptLit(<<"f","r","o","m"," ">>), Word(1)>>) >>

\* "SELECT * FROM \"%s\".\"%s\" LIMIT 50"
FmtSelect50 == <<<<"S","E","L","E","C","T"," ","*"," ","F","R","O","M"," ","\"">>, <<"\"",".","\"">>, <<"\""," ","L","I","M","I","T"," ","5","0">>>>

matchSelectQuery(query, s) ==
    TableSQL(FmtSelect50, FirstResolved(selectPatterns, query, s))

\* ------------------------------------------------------------------------
\* QueryEngine.matchSpatialQuery

\* Number with any run of word characters for the digits.
NumberAnyWord(k) == Cap(k, Plus("w"))

\* (\d+(?:\.\d+)?) as the k-th group
Number(k) == Cap(k, Cat(<<Plus("d"), Opt(Cat(<<Lit(<<".">>), Plus("d")>>))>>))

\* (?:km|kilometers?|m|meters?|mi|miles?)
DistanceUnit == Alt(<<Lit(<<"k","m">>), Cat(<<Lit(<<"k","i","l","o","m","e","t","e","r">>), OptLit(<<"s">>)>>),
                      Lit(<<"m">>), Cat(<<Lit(<<"m","e","t","e","r">>), OptLit(<<"s">>)>>),
                      Lit(<<"m","i">>), Cat(<<Lit(<<"m","i","l","e">>), OptLit(<<"s">>)>>)>>)

distancePatterns == <<
    \* within (\d+(?:\.\d+)?)\s*(?:km|kilometers?|m|meters?|mi|miles?)
    Re(1, <<Lit(<<"w","i","t","h","i","n"," ">>), Number(1), Star("s"), DistanceUnit>>),
    \* (\d+(?:\.\d+)?)\s*(?:km|kilometers?|m|meters?|mi|miles?) (?:from|of|away)
    Re(1, <<Number(1), Star("s"), DistanceUnit, Lit(<<" ">>),
            Alt(<<Lit(<<"f","r","o","m">>), Lit(<<"o","f">>), Lit(<<"a","w","a","y">>)>>)>>) >>

FmtDWithin == <<<<"S","E","L","E","C","T"," ","*"," ","F","R","O","M"," ","\"">>,
    <<"\"",".","\"">>,
    <<"\"","\n","\t","\t","\t","\t","\t","W","H","E","R","E"," ","S","T","_","D","W","i","t","h",
        "i","n","(","\"">>,
    <<"\"",":",":","g","e","o","g","r","a","p","h","y",","," ","S","T","_","M","a","k","e","P",
        "o","i","n","t","(","0",","," ","0",")",":",":","g","e","o","g","r","a","p","h","y",","," ">>,
    <<")","\n","\t","\t","\t","\t","\t","L","I","M","I","T"," ","5","0">>>>

FmtArea == <<<<"S","E","L","E","C","T"," ","*",","," ","S","T","_","A","r","e","a","(","\"">>,
    <<"\"",":",":","g","e","o","g","r","a","p","h","y",")"," ","a","s"," ","a","r","e","a","_",
        "s","q","m","\n","\t","\t","\t","\t","\t","\t","F","R","O","M"," ","\"">>,
    <<"\"",".","\"">>,
    <<"\"","\n","\t","\t","\t","\t","\t","\t","O","R","D","E","R"," ","B","Y"," ","S","T","_","A",
        "r","e","a","(","\"">>,
    <<"\"",":",":","g","e","o","g","r","a","p","h","y",")"," ","D","E","S","C","\n","\t","\t",
        "\t","\t","\t","\t","L","I","M","I","T"," ","5","0">>>>

FmtTotalLength == <<<<"S","E","L","E","C","T"," ","S","U","M","(","S","T","_","L","e","n","g","t","h","(","\"">>,
    <<"\"",":",":","g","e","o","g","r","a","p","h","y",")",")"," ","a","s"," ","t","o","t","a",
        "l","_","l","e","n","g","t","h","_","m","e","t","e","r","s","\n","\t","\t","\t","\t","\t",
        "\t","\t","F","R","O","M"," ","\"">>,
    <<"\"",".","\"">>,
    <<"\"">>>>

FmtLength == <<<<"S","E","L","E","C","T"," ","*",","," ","S","T","_","L","e","n","g","t","h","(","\"">>,
    <<"\"",":",":","g","e","o","g","r","a","p","h","y",")"," ","a","s"," ","l","e","n","g","t",
        "h","_","m","e","t","e","r","s","\n","\t","\t","\t","\t","\t","\t","F","R","O","M"," ","\"">>,
    <<"\"",".","\"">>,
    <<"\"","\n","\t","\t","\t","\t","\t","\t","O","R","D","E","R"," ","B","Y"," ","S","T","_","L",
        "e","n","g","t","h","(","\"">>,
    <<"\"",":",":","g","e","o","g","r","a","p","h","y",")"," ","D","E","S","C","\n","\t","\t",
        "\t","\t","\t","\t","L","I","M","I","T"," ","5","0">>>>

\* The subsequence of seq whose elements satisfy keep, in order.
SelectSeq2(seq, Keep(_)) ==
    LET idx == SortedSeq({i \in 1..Len(seq) : Keep(seq[i])})
    IN  AsSeq([k \in 1..Len(idx) |-> seq[idx[k]]])

HasGeometry(table) == \E i \in 1..Len(table.Columns) : table.Columns[i].IsGeometry

\* The first <<table, column>>, tables in order and columns in order within
\* a table, whose column satisfies Want; <<>> when there is none.
FirstColumn(tables, Want(_)) ==
    LET hitT == {i \in 1..Len(tables) :
                    \E j \in 1..Len(tables[i].Columns) : Want(tables[i].Columns[j])}
    IN  IF hitT = {} THEN <<>>
        ELSE With(tables[Min(hitT)], LAMBDA t :
                  <<t, t.Columns[Min({k \in 1..Len(t.Columns) : Want(t.Columns[k])})]>>)

IsPolygon(col) ==
    col.IsGeometry /\ (col.GeomType = <<"P","O","L","Y","G","O","N">> \/ col.GeomType = <<"M","U","L","T","I","P","O","L","Y","G","O","N">>)
IsLine(col) ==
    col.IsGeometry /\ (col.GeomType = <<"L","I","N","E","S","T","R","I","N","G">> \/ col.GeomType = <<"M","U","L","T","I","L","I","N","E","S","T","R","I","N","G">>)
IsGeom(col) == col.IsGeometry

\* Convert distance to meters
DistanceMeters(query, dist) ==
    IF Contains(query, <<"k","m">>) \/ Contains(query, <<"k","i","l","o","m","e","t","e","r">>)
    THEN dist \o <<" ","*"," ","1","0","0","0">>
    ELSE IF Contains(query, <<"m","i">>) \/ Contains(query, <<"m","i","l","e">>)
    THEN dist \o <<" ","*"," ","1","6","0","9",".","3","4">>
    ELSE dist

\* The distance branch: the first distance pattern that matches, applied to
\* the first geometry table and its first geometry column.
SpatialDistance(query, geomTables) ==
    With(FirstNonEmpty(AsSeq([i \in 1..Len(distancePatterns) |->
                                 FindStringSubmatch(distancePatterns[i], query)])),
         LAMBDA matches :
             With(FirstColumn(<<geomTables[1]>>, IsGeom)[2].Name, LAMBDA geomCol :
                  IF Len(matches) > 1 /\ geomCol # <<>>
                  THEN Sprintf(FmtDWithin,
                               <<geomTables[1].Schema, geomTables[1].Name, geomCol,
                                 DistanceMeters(query, matches[2])>>)
                  ELSE <<>>))

SpatialArea(query, geomTables) ==
    With(FirstColumn(geomTables, IsPolygon), LAMBDA hit :
         IF (Contains(query, <<"a","r","e","a">>) \/ Contains(query, <<"s","i","z","e">>)) /\ hit # <<>>
         THEN Sprintf(FmtArea, <<hit[2].Name, hit[1].Schema, hit[1].Name, hit[2].Name>>)
         ELSE <<>>)

\* SpatialLength over the first geometry column of any type.
SpatialLengthAnyGeometry(query, geomTables) ==
    With(FirstColumn(geomTables, IsGeom), LAMBDA hit :
         IF /\ \/ Contains(query, <<"l","e","n","g","t","h">>)
               \/ Contains(query, <<"m","e","t","e","r","s"," ","o","f"," ","r","o","a","d">>)
               \/ Contains(query, <<"d","i","s","t","a","n","c","e">>)
            /\ hit # <<>>
         THEN IF Contains(query, <<"t","o","t","a","l">>) \/ Contains(query, <<"s","u","m">>)
              THEN Sprintf(FmtTotalLength, <<hit[2].Name, hit[1].Schema, hit[1].Name>>)
              ELSE Sprintf(FmtLength,
                           <<hit[2].Name, hit[1].Schema, hit[1].Name, hit[2].Name>>)
         ELSE <<>>)

SpatialLength(query, geomTables) ==
    With(FirstColumn(geomTables, IsLine), LAMBDA hit :
         IF /\ \/ Contains(query, <<"l","e","n","g","t","h">>)
               \/ Contains(query, <<"m","e","t","e","r","s"," ","o","f"," ","r","o","a","d">>)
               \/ Contains(query, <<"d","i","s","t","a","n","c","e">>)
            /\ hit # <<>>
         THEN IF Contains(query, <<"t","o","t","a","l">>) \/ Contains(query, <<"s","u","m">>)
              THEN Sprintf(FmtTotalLength, <<hit[2].Name, hit[1].Schema, hit[1].Name>>)
              ELSE Sprintf(FmtLength,
                           <<hit[2].Name, hit[1].Schema, hit[1].Name, hit[2].Name>>)
         ELSE <<>>)

matchSpatialQuery(query, s) ==
    \* Find geometry columns
    With(SelectSeq2(s.Tables, HasGeometry), LAMBDA geomTables :
         IF geomTables = <<>> THEN <<>>
         ELSE FirstNonEmpty(<<SpatialDistance(query, geomTables),
                              SpatialArea(query, geomTables),
                              SpatialLength(query, geomTables)>>))

\* ------------------------------------------------------------------------
\* Scores.  The code computes scores in float64; the model computes the same
\* expressions over exact fractions <<numerator, denominator>>, denominator
\* positive, in lowest terms.

RECURSIVE GCD(_, _)
GCD(a, b) == IF b = 0 THEN a ELSE GCD(b, a % b)

Frac(n, d) == LET g == GCD(n, d) IN IF n = 0 THEN <<0, 1>> ELSE <<n \div g, d \div g>>
FracMul(x, y) == Frac(x[1] * y[1], x[2] * y[2])
FracAdd(x, y) == Frac(x[1] * y[2] + y[1] * x[2], x[2] * y[2])
FracSub(x, y) == IF x[1] * y[2] >= y[1] * x[2]
                 THEN Frac(x[1] * y[2] - y[1] * x[2], x[2] * y[2])
                 ELSE LET m == Frac(y[1] * x[2] - x[1] * y[2], x[2] * y[2])
                      IN  <<0 - m[1], m[2]>>
FracLess(x, y) == x[1] * y[2] < y[1] * x[2]
FracLeq(x, y) == x[1] * y[2] <= y[1] * x[2]
Zero == <<0, 1>>
One == <<1, 1>>

\* strconv.Itoa for n >= 0
RECURSIVE Itoa(_)
Itoa(n) == IF n < 10 THEN <<DigitChars[n + 1]>>
           ELSE Itoa(n \div 10) \o <<DigitChars[(n % 10) + 1]>>

\* fmt.Sprintf("%.0f", x) for x >= 0: x rounded to the nearest integer, a
\* tie to the even one.
FormatRounded(x) ==
    LET q == x[1] \div x[2]
        r == x[1] % x[2]
    IN  Itoa(IF 2 * r > x[2] THEN q + 1
             ELSE IF 2 * r = x[2] THEN q + (q % 2)
             ELSE q)

\* ------------------------------------------------------------------------
\* stemWord

stemSuffixes == <<
    <<"o","l","o","g","y">>, <<"o","l","o","g","i","c","a","l">>, <<"a","t","i","o","n">>, <<"a","t","i","o","n","s">>, <<"m","e","n","t">>, <<"m","e","n","t","s">>,
    <<"n","e","s","s">>, <<"i","t","y">>, <<"i","e","s">>, <<"i","n","g">>, <<"e","d">>, <<"e","r">>, <<"e","r","s">>, <<"e","s","t">>,
    <<"l","y">>, <<"a","l">>, <<"i","a","l">>, <<"o","u","s">>, <<"i","v","e">>, <<"a","b","l","e">>, <<"i","b","l","e">>, <<"f","u","l">>,
    <<"l","e","s","s">>, <<"s","h","i","p">>, <<"w","a","r","d">>, <<"w","a","r","d","s">>, <<"w","i","s","e">> >>

\* Handle plurals first
StemPlural(word) ==
    IF HasSuffix(word, <<"i","e","s">>) /\ Len(word) > 4
    THEN SubSeq(word, 1, Len(word) - 3) \o <<"y">>
    ELSE IF HasSuffix(word, <<"e","s">>) /\ Len(word) > 3
    THEN SubSeq(word, 1, Len(word) - 2)
    ELSE IF HasSuffix(word, <<"s">>) /\ Len(word) > 2 /\ ~HasSuffix(word, <<"s","s">>)
    THEN SubSeq(word, 1, Len(word) - 1)
    ELSE word

\* Remove common suffixes: the first suffix of the list that leaves a stem
\* of three characters or more.
StemSuffix(word) ==
    LET hits == {i \in 1..Len(stemSuffixes) :
                    /\ HasSuffix(word, stemSuffixes[i])
                    /\ Len(word) - Len(stemSuffixes[i]) >= 3}
    IN  IF hits = {} THEN word
        ELSE SubSeq(word, 1, Len(word) - Len(stemSuffixes[Min(hits)]))

stemWord(word) == StemSuffix(StemPlural(ToLower(word)))

\* ------------------------------------------------------------------------
\* levenshteinDistance.  A row is matrix[i][0..len(s2)], held as a sequence
\* whose element j + 1 is column j.

Min3(a, b, c) == Min({a, b, c})

\* Row i (i >= 1) from row i - 1.  Each cell is the minimum of deletion,
\* insertion and substitution as in the code; the insertions
\* matrix[i][j-1] + 1 are followed back along the row, so that cell j is the
\* least, over k <= j, of the value cell k takes from the previous row plus
\* the j - k insertions after it.
LevRow(prev, c, s2, i) ==
    LET n == Len(s2)
        fromPrev == AsSeq([j \in 1..n |->
                              LET cost == IF c = s2[j] THEN 0 ELSE 1
                              IN  Min({prev[j + 1] + 1,       \* deletion
                                       prev[j] + cost})       \* substitution
                          ])
    IN  AsSeq([col \in 1..(n + 1) |->
                  LET j == col - 1
                  IN  Min({i + j} \cup {fromPrev[k] + (j - k) : k \in 1..j})])

\* The matrix: rows holds rows 0 .. Len(rows) - 1, and the rows up to
\* len(s1) are added one by one.
RECURSIVE LevRows(_, _, _)
LevRows(s1, s2, rows) ==
    IF Len(rows) > Len(s1) THEN rows
    ELSE LevRows(s1, s2,
                 Append(rows, LevRow(rows[Len(rows)], s1[Len(rows)], s2, Len(rows))))

levenshteinDistance(s1, s2) ==
    IF Len(s1) = 0 THEN Len(s2)
    ELSE IF Len(s2) = 0 THEN Len(s1)
    ELSE LevRows(s1, s2, <<AsSeq([j \in 1..(Len(s2) + 1) |-> j - 1])>>)
             [Len(s1) + 1][Len(s2) + 1]

\* ------------------------------------------------------------------------
\* generateNgrams, ngramSimilarity

generateNgrams(s0, n) ==
    LET s == ToLower(s0)
    IN  IF Len(s) < n THEN {s}
        ELSE {SubSeq(s, i, i + n - 1) : i \in 1..(Len(s) - n + 1)}

\* The Jaccard similarity of the n-gram sets, as a fraction.
ngramSimilarity(s1, s2, n) ==
    LET ngrams1 == generateNgrams(s1, n)
        ngrams2 == generateNgrams(s2, n)
        intersection == Cardinality(ngrams1 \cap ngrams2)
        union == Cardinality(ngrams1) + Cardinality(ngrams2) - intersection
    IN  IF union = 0 THEN Zero ELSE Frac(intersection, union)

\* ------------------------------------------------------------------------
\* splitEntityName: the words of a snake_case, kebab-case or camelCase name,
\* lower-cased.  A word starts after a separator and at every upper-case
\* letter but the first character.

splitEntityName(name) ==
    LET IsSep(c) == c \in {"_", "-", " "}
        starts == {i \in 1..Len(name) :
                      /\ ~IsSep(name[i])
                      /\ i = 1 \/ IsSep(name[i - 1]) \/ IsUpper(name[i])}
        EndOf(i) == Min({j \in i..Len(name) :
                            \/ j = Len(name)
                            \/ IsSep(name[j + 1])
                            \/ IsUpper(name[j + 1])})
        order == SortedSeq(starts)
    IN  AsSeq([k \in 1..Len(order) |-> ToLower(SubSeq(name, order[k], EndOf(order[k])))])

\* ------------------------------------------------------------------------
\* SemanticMatcher.calculateMatchScore

Score(score, matchType) == [Score |-> score, MatchType |-> matchType]

MinLen(a, b) == IF Len(b) < Len(a) THEN Len(b) ELSE Len(a)

\* 2. Contains match
ScoreContains(keyword, entityLower, best) ==
    LET score == FracMul(Frac(17, 20), Frac(Len(keyword), Len(entityLower)))
    IN  IF Contains(entityLower, keyword) /\ FracLess(best.Score, score)
        THEN Score(FracAdd(score, Frac(1, 10)), <<"c","o","n","t","a","i","n","s">>)
        ELSE best

ScoreContainsReverse(keyword, entityLower, best) ==
    LET score == FracMul(Frac(4, 5), Frac(Len(entityLower), Len(keyword)))
    IN  IF /\ Contains(keyword, entityLower) /\ Len(entityLower) >= 3
           /\ FracLess(best.Score, score)
        THEN Score(FracAdd(score, Frac(1, 10)), <<"c","o","n","t","a","i","n","s","_","r","e","v","e","r","s","e">>)
        ELSE best

\* 3. Prefix/suffix match
ScorePrefix(keyword, entityLower, best) ==
    LET minLen == MinLen(keyword, entityLower)
        score == FracMul(Frac(3, 4),
                         Frac(minLen, Len(entityLower) + Len(keyword) - minLen))
    IN  IF /\ HasPrefix(entityLower, keyword) \/ HasPrefix(keyword, entityLower)
           /\ FracLess(best.Score, score)
        THEN Score(FracAdd(score, Frac(3, 20)), <<"p","r","e","f","i","x">>)
        ELSE best

\* 4. Partial stem match against the words of the entity, in order.
StemPartialScore(keywordStem, wordStem, best) ==
    LET minLen == MinLen(keywordStem, wordStem)
        score == FracMul(Frac(7, 10), Frac(minLen, Len(keywordStem)))
    IN  IF /\ HasPrefix(wordStem, keywordStem) \/ HasPrefix(keywordStem, wordStem)
           /\ minLen >= 3
           /\ FracLess(best.Score, score)
        THEN Score(score, <<"s","t","e","m","_","p","a","r","t","i","a","l">>)
        ELSE best

RECURSIVE ScoreStemPartial(_, _, _, _)
ScoreStemPartial(keywordStem, entityWords, k, best) ==
    IF k > Len(entityWords) THEN best
    ELSE ScoreStemPartial(keywordStem, entityWords, k + 1,
                          StemPartialScore(keywordStem, stemWord(entityWords[k]), best))

ScoreStemWhole(keywordStem, entityStem, best) ==
    IF /\ keywordStem = entityStem /\ Len(keywordStem) >= 3
       /\ FracLess(best.Score, Frac(17, 20))
    THEN Score(Frac(17, 20), <<"s","t","e","m">>)
    ELSE best

\* 5. N-gram similarity (trigrams)
NgramScore(ngramScore, best) ==
    IF FracLess(Frac(3, 10), ngramScore) /\ FracLess(best.Score, ngramScore)
    THEN Score(FracMul(ngramScore, Frac(4, 5)), <<"n","g","r","a","m">>)
    ELSE best

ScoreNgram(keyword, entityLower, best) ==
    NgramScore(ngramSimilarity(keyword, entityLower, 3), best)

\* 6. Levenshtein distance (fuzzy match) - only for similar length strings
FuzzyScore(keyword, entityLower, distance, best) ==
    LET maxLen == IF Len(entityLower) > Len(keyword) THEN Len(entityLower) ELSE Len(keyword)
        score == FracMul(FracSub(One, Frac(distance, maxLen)), Frac(7, 10))
    IN  IF distance <= 2 /\ FracLess(best.Score, score)
        THEN Score(score, <<"f","u","z","z","y">>)
        ELSE best

ScoreFuzzy(keyword, entityLower, best) ==
    LET lenDiff == IF Len(keyword) < Len(entityLower)
                   THEN Len(entityLower) - Len(keyword)
                   ELSE Len(keyword) - Len(entityLower)
    IN  IF lenDiff <= 3 /\ Len(keyword) >= 4
        THEN FuzzyScore(keyword, entityLower,
                        levenshteinDistance(keyword, entityLower), best)
        ELSE best

\* Steps 2 to 6, each keeping the best score so far.
BestScore(keyword, entityLower, entityWords, keywordStem) ==
    ScoreFuzzy(keyword, entityLower,
      ScoreNgram(keyword, entityLower,
        ScoreStemWhole(keywordStem, stemWord(entityLower),
          ScoreStemPartial(keywordStem, entityWords, 1,
            ScorePrefix(keyword, entityLower,
              ScoreContainsReverse(keyword, entityLower,
                ScoreContains(keyword, entityLower, Score(Zero, <<>>))))))))

\* Steps 1 and 4 return at once.
FirstScore(keyword, entityLower, entityWords, keywordStem) ==
    \* 1. Exact match (highest score)
    IF keyword = entityLower THEN Score(One, <<"e","x","a","c","t">>)
    \* Check against each word in entity name
    ELSE IF \E k \in 1..Len(entityWords) : keyword = entityWords[k]
    THEN Score(Frac(19, 20), <<"e","x","a","c","t","_","w","o","r","d">>)
    \* 4. Stem matching: a word with the keyword's stem returns at once
    ELSE IF /\ Len(keywordStem) >= 3
            /\ \E k \in 1..Len(entityWords) : keywordStem = stemWord(entityWords[k])
    THEN Score(Frac(17, 20), <<"s","t","e","m">>)
    ELSE BestScore(keyword, entityLower, entityWords, keywordStem)

\* calculateMatchScore comparing the keyword with the entity as written.
calculateMatchScoreCaseSensitive(keyword, entityName) ==
    FirstScore(ToLower(keyword), entityName,
               splitEntityName(entityName), stemWord(ToLower(keyword)))

calculateMatchScore(keyword, entityName) ==
    FirstScore(ToLower(keyword), ToLower(entityName),
               \* Split entity name into component words
               splitEntityName(entityName), stemWord(ToLower(keyword)))
\* ------------------------------------------------------------------------
\* QueryEngine.findSemanticMatches

\* const minScore = 0.35
minScore == Frac(7, 20)

NoMatch == [Score |-> Zero, MatchType |-> <<>>, MatchedOn |-> <<>>, Keyword |-> <<>>]

\* What the loop body over keywords compares the keyword with, for one
\* table, in the order of the code: the table name, the words of the
\* comment, the column names.
CandidatesOf(keyword, table) ==
    LET commentWords == IF table.Comment # <<>>
                        THEN Fields(ToLower(table.Comment)) ELSE <<>>
    IN  <<[kind |-> "table", keyword |-> keyword, entity |-> table.Name]>>
        \o AsSeq([k \in 1..Len(commentWords) |->
               [kind |-> "comment", keyword |-> keyword, entity |-> commentWords[k]]])
        \o AsSeq([k \in 1..Len(table.Columns) |->
               [kind |-> "column", keyword |-> keyword, entity |-> table.Columns[k].Name]])

RECURSIVE AllCandidates(_, _, _)
AllCandidates(keywords, k, table) ==
    IF k > Len(keywords) THEN <<>>
    ELSE CandidatesOf(keywords[k], table) \o AllCandidates(keywords, k + 1, table)

\* One comparison: st is [bestTableScore, bestMatch], score the score of
\* the keyword against the entity.
Compare(c, table, st, score) ==
    LET colScore == FracMul(score.Score, Frac(17, 20))
    IN  CASE c.kind = "table" ->
               IF FracLess(st.bestTableScore, score.Score) /\ FracLeq(minScore, score.Score)
               THEN [bestTableScore |-> score.Score,
                     bestMatch |-> [Score |-> score.Score,
                                    MatchType |-> score.MatchType \o <<"_","t","a","b","l","e">>,
                                    MatchedOn |-> table.Name, Keyword |-> c.keyword]]
               ELSE st
          [] c.kind = "comment" ->
               IF FracLess(st.bestTableScore, score.Score) /\ FracLeq(minScore, score.Score)
               THEN [bestTableScore |-> score.Score,
                     bestMatch |-> [Score |-> FracMul(score.Score, Frac(9, 10)),
                                    MatchType |-> score.MatchType \o <<"_","c","o","m","m","e","n","t">>,
                                    MatchedOn |-> table.Comment, Keyword |-> c.keyword]]
               ELSE st
          [] c.kind = "column" ->
               IF FracLeq(minScore, score.Score) /\ FracLess(st.bestTableScore, colScore)
               THEN [bestTableScore |-> colScore,
                     bestMatch |-> [Score |-> colScore,
                                    MatchType |-> score.MatchType \o <<"_","c","o","l","u","m","n">>,
                                    MatchedOn |-> c.entity, Keyword |-> c.keyword]]
               ELSE st

ScoreCandidate(c, table, st) ==
    Compare(c, table, st, calculateMatchScore(c.keyword, c.entity))

\* The comparisons of one table in order: sts holds the state before the
\* first comparison and after each comparison made so far; the result is
\* the state after the last.
RECURSIVE ScoreTable(_, _, _)
ScoreTable(cands, table, sts) ==
    IF Len(sts) > Len(cands) THEN sts[Len(sts)]
    ELSE ScoreTable(cands, table,
                    Append(sts, ScoreCandidate(cands[Len(sts)], table, sts[Len(sts)])))

\* The sort of the code: for i, for j > i, swap when matches[j] scores
\* higher than matches[i].
RECURSIVE SortMatches(_, _, _)
SortMatches(matches, i, j) ==
    IF i >= Len(matches) THEN matches
    ELSE IF j > Len(matches) THEN SortMatches(matches, i + 1, i + 2)
    ELSE IF FracLess(matches[i].Score, matches[j].Score)
    THEN SortMatches([matches EXCEPT ![i] = matches[j], ![j] = matches[i]], i, j + 1)
    ELSE SortMatches(matches, i, j + 1)

\* The matches of the tables whose best score reaches minScore, in schema
\* order; best[i] is the outcome of the comparisons of table i.
KeptMatches(T, best) ==
    LET kept == SortedSeq({i \in 1..Len(T) : FracLeq(minScore, best[i].bestTableScore)})
    IN  AsSeq([k \in 1..Len(kept) |->
                  [Table |-> T[kept[k]],
                   Score |-> best[kept[k]].bestMatch.Score,
                   MatchType |-> best[kept[k]].bestMatch.MatchType,
                   MatchedOn |-> best[kept[k]].bestMatch.MatchedOn,
                   Keyword |-> best[kept[k]].bestMatch.Keyword]])

findSemanticMatches(keywords, s) ==
    \* Sort by score descending
    SortMatches(
        KeptMatches(s.Tables,
            AsSeq([i \in 1..Len(s.Tables) |->
                      ScoreTable(AllCandidates(keywords, 1, s.Tables[i]), s.Tables[i],
                                 <<[bestTableScore |-> Zero, bestMatch |-> NoMatch]>>)])),
        1, 2)

\* ------------------------------------------------------------------------
\* QueryEngine.findCommonColumns

\* The characters of identifiers in byte order, for the comparison of strings.
ByteOrder == DigitChars \o UpperChars \o <<"_">> \o LowerChars
Ord(c) == IF c \in Range(ByteOrder) THEN CHOOSE i \in 1..Len(ByteOrder) : ByteOrder[i] = c
          ELSE 0

\* a < b for Go strings
StrLess(a, b) ==
    \/ Len(a) < Len(b) /\ SubSeq(b, 1, Len(a)) = a
    \/ \E p \in 1..MinLen(a, b) :
          /\ \A k \in 1..(p - 1) : a[k] = b[k]
          /\ Ord(a[p]) < Ord(b[p])

findCommonColumns(matches) ==
    LET ColNames(m) == {m.Table.Columns[k].Name : k \in 1..Len(m.Table.Columns)}
        \* columns of the first table that exist in all tables
        common == {c \in ColNames(matches[1]) :
                      \A i \in 2..Len(matches) : c \in ColNames(matches[i])}
    IN  IF Len(matches) = 0 THEN <<>>
        \* Sort for consistent output
        ELSE AsSeq([k \in 1..Cardinality(common) |->
                 CHOOSE c \in common : Cardinality({d \in common : StrLess(d, c)}) = k - 1])

\* ------------------------------------------------------------------------
\* QueryEngine.matchSearchQuery

Spaces == Plus("s")
TableOrTables == Cat(<<Lit(<<"t","a","b","l","e">>), OptLit(<<"s">>)>>)

searchPatterns == <<
    \* (?:do i have|is there|are there|find|search for|look for|any) (?:any )?(.+?)
    \*     (?:\s+(?:related\s+)?data|\s+tables?|\s+information)?$
    Re(1, <<Alt(<<Lit(<<"d","o"," ","i"," ","h","a","v","e">>), Lit(<<"i","s"," ","t","h","e","r","e">>), Lit(<<"a","r","e"," ","t","h","e","r","e">>), Lit(<<"f","i","n","d">>),
                  Lit(<<"s","e","a","r","c","h"," ","f","o","r">>), Lit(<<"l","o","o","k"," ","f","o","r">>), Lit(<<"a","n","y">>)>>),
            Lit(<<" ">>), OptLit(<<"a","n","y"," ">>), Cap(1, LazyPlus("any")),
            Opt(Alt(<<Cat(<<Spaces, Opt(Cat(<<Lit(<<"r","e","l","a","t","e","d">>), Spaces>>)), Lit(<<"d","a","t","a">>)>>),
                      Cat(<<Spaces, TableOrTables>>),
                      Cat(<<Spaces, Lit(<<"i","n","f","o","r","m","a","t","i","o","n">>)>>)>>)),
            Eol>>),
    \* (?:what|which) (?:tables?|data) (?:contain|have|include|relate to|about) (.+)
    Re(1, <<Alt(<<Lit(<<"w","h","a","t">>), Lit(<<"w","h","i","c","h">>)>>), Lit(<<" ">>),
            Alt(<<TableOrTables, Lit(<<"d","a","t","a">>)>>), Lit(<<" ">>),
            Alt(<<Lit(<<"c","o","n","t","a","i","n">>), Lit(<<"h","a","v","e">>), Lit(<<"i","n","c","l","u","d","e">>), Lit(<<"r","e","l","a","t","e"," ","t","o">>),
                  Lit(<<"a","b","o","u","t">>)>>),
            Lit(<<" ">>), Cap(1, Plus("any"))>>),
    \* (.+?)(?:\s+related)?\s+(?:tables?|data)
    Re(1, <<Cap(1, LazyPlus("any")), Opt(Cat(<<Spaces, Lit(<<"r","e","l","a","t","e","d">>)>>)), Spaces,
            Alt(<<TableOrTables, Lit(<<"d","a","t","a">>)>>)>>) >>

\* Common words to exclude from keyword extraction
excludeWords == {
    <<"t","h","e">>, <<"a">>, <<"a","n">>, <<"a","n","y">>, <<"s","o","m","e">>,
    <<"d","a","t","a">>, <<"t","a","b","l","e">>, <<"t","a","b","l","e","s">>, <<"r","e","l","a","t","e","d">>,
    <<"i","n","f","o","r","m","a","t","i","o","n">>, <<"d","o">>, <<"i">>, <<"h","a","v","e">>, <<"i","s">>,
    <<"t","h","e","r","e">>, <<"a","r","e">>, <<"f","i","n","d">>, <<"s","e","a","r","c","h">>, <<"f","o","r">>,
    <<"l","o","o","k">>, <<"w","h","a","t">>, <<"w","h","i","c","h">>, <<"c","o","n","t","a","i","n">>, <<"a","b","o","u","t">>,
    <<"i","n","c","l","u","d","e">>, <<"w","i","t","h">>, <<"m","y">>, <<"i","n">>, <<"t","o">> }

\* The words of text, trimmed of ".,?!" and lower-cased, that are longer
\* than minLen and not excluded.
KeywordsOf(text, minLen) ==
    With(AsSeq([k \in 1..Len(Fields(text)) |->
                   ToLower(Trim(Fields(text)[k], {".", ",", "?", "!"}))]),
         LAMBDA clean :
             SelectSeq(clean, LAMBDA w : Len(w) > minLen /\ w \notin excludeWords))

\* ExtractKeywords without the second try over the whole query.
ExtractKeywordsPatternOnly(query) ==
    With(FirstNonEmpty(AsSeq([i \in 1..Len(searchPatterns) |->
                                 FindStringSubmatch(searchPatterns[i], query)])),
         LAMBDA matches : IF Len(matches) > 1 THEN KeywordsOf(matches[2], 2) ELSE <<>>)

\* Extract keywords from query
ExtractKeywords(query) ==
    With(FirstNonEmpty(AsSeq([i \in 1..Len(searchPatterns) |->
                                 FindStringSubmatch(searchPatterns[i], query)])),
         LAMBDA matches :
             With(IF Len(matches) > 1 THEN KeywordsOf(matches[2], 2) ELSE <<>>,
                  LAMBDA fromPattern :
                      IF fromPattern # <<>> THEN fromPattern
                      \* If no keywords from patterns, try the whole query
                      ELSE KeywordsOf(query, 3)))

\* The query showing what is available.
SqlAvailable == <<"S","E","L","E","C","T"," ","t","a","b","l","e","_","s","c","h","e","m","a",","," ","t","a",
        "b","l","e","_","n","a","m","e",",","\n","\t","\t","\t","(","S","E","L","E","C","T"," ","s",
        "t","r","i","n","g","_","a","g","g","(","c","o","l","u","m","n","_","n","a","m","e",","," ",
        "'",","," ","'",")"," ","F","R","O","M"," ","i","n","f","o","r","m","a","t","i","o","n","_",
        "s","c","h","e","m","a",".","c","o","l","u","m","n","s"," ","c","\n","\t","\t","\t"," ","W",
        "H","E","R","E"," ","c",".","t","a","b","l","e","_","s","c","h","e","m","a"," ","="," ","t",
        ".","t","a","b","l","e","_","s","c","h","e","m","a"," ","A","N","D"," ","c",".","t","a","b",
        "l","e","_","n","a","m","e"," ","="," ","t",".","t","a","b","l","e","_","n","a","m","e",")",
        " ","a","s"," ","c","o","l","u","m","n","s","\n","\t","\t","\t","F","R","O","M"," ","i","n",
        "f","o","r","m","a","t","i","o","n","_","s","c","h","e","m","a",".","t","a","b","l","e","s",
        " ","t","\n","\t","\t","\t","W","H","E","R","E"," ","t","a","b","l","e","_","t","y","p","e",
        " ","="," ","'","B","A","S","E"," ","T","A","B","L","E","'"," ","A","N","D"," ","t","a","b",
        "l","e","_","s","c","h","e","m","a"," ","N","O","T"," ","I","N"," ","(","'","p","g","_","c",
        "a","t","a","l","o","g","'",","," ","'","i","n","f","o","r","m","a","t","i","o","n","_","s",
        "c","h","e","m","a","'",")","\n","\t","\t","\t","O","R","D","E","R"," ","B","Y"," ","t","a",
        "b","l","e","_","s","c","h","e","m","a",","," ","t","a","b","l","e","_","n","a","m","e">>

\* "SELECT '%s.%s' as _source_table, %s FROM \"%s\".\"%s\""
FmtSourceCols == <<<<"S","E","L","E","C","T"," ","'">>, <<".">>, <<"'"," ","a","s"," ","_","s","o","u","r","c","e","_","t","a","b","l","e",","," ">>, <<" ","F","R","O","M"," ","\"">>, <<"\"",".","\"">>,
                   <<"\"">>>>

\* "(SELECT '%s.%s' as _source_table, * FROM \"%s\".\"%s\" LIMIT %d)"
FmtSourceAll == <<<<"(","S","E","L","E","C","T"," ","'">>, <<".">>, <<"'"," ","a","s"," ","_","s","o","u","r","c","e","_","t","a","b","l","e",","," ","*"," ","F",
        "R","O","M"," ","\"">>, <<"\"",".","\"">>,
                  <<"\""," ","L","I","M","I","T"," ">>, <<")">>>>

\* "SELECT '%s.%s' as table_name, '%.0f%%' as match_score, '%s' as matched_on,
\*  COUNT(*) as row_count FROM \"%s\".\"%s\""
FmtSummary == <<<<"S","E","L","E","C","T"," ","'">>, <<".">>, <<"'"," ","a","s"," ","t","a","b","l","e","_","n","a","m","e",","," ","'">>, <<"%","'"," ","a","s"," ","m","a","t","c","h","_","s","c","o","r","e",","," ","'">>,
                <<"'"," ","a","s"," ","m","a","t","c","h","e","d","_","o","n",","," ","C","O","U","N","T","(",
        "*",")"," ","a","s"," ","r","o","w","_","c","o","u","n","t"," ","F","R","O","M"," ","\"">>, <<"\"",".","\"">>, <<"\"">>>>

\* SimilarMatches without the limit of 5 tables.
SimilarMatchesUncapped(matches) ==
    LET topScore == matches[1].Score
        near == SortedSeq({k \in 1..Len(matches) :
                              FracLeq(FracSub(topScore, matches[k].Score), Frac(1, 4))})
    IN  AsSeq([k \in 1..Len(near) |-> matches[near[k]]])

\* Include matches within 0.25 of top score, up to 5 tables
SimilarMatches(matches) ==
    LET topScore == matches[1].Score
        near == SortedSeq({k \in 1..Len(matches) :
                              FracLeq(FracSub(topScore, matches[k].Score), Frac(1, 4))})
    IN  AsSeq([k \in 1..Min({5, Len(near)}) |-> matches[near[k]]])

\* Build UNION query with common columns + source table identifier
UnionCommon(similarMatches, commonCols) ==
    LET colList == AsSeq([i \in 1..Len(commonCols) |-> <<"\"">> \o commonCols[i] \o <<"\"">>])
        unionQueries ==
            AsSeq([k \in 1..Len(similarMatches) |->
                LET t == similarMatches[k].Table
                IN  Sprintf(FmtSourceCols,
                            <<t.Schema, t.Name, Join(colList, <<","," ">>), t.Schema, t.Name>>)])
    IN  Join(unionQueries, <<" ","U","N","I","O","N"," ","A","L","L"," ">>) \o <<" ","L","I","M","I","T"," ","1","0","0">>

\* No common columns - just select * from each with source identifier
UnionAll(similarMatches) ==
    LET perTable == 100 \div Len(similarMatches)
        rowsPerTable == IF perTable < 10 THEN 10 ELSE perTable
        unionQueries ==
            AsSeq([k \in 1..Len(similarMatches) |->
                LET t == similarMatches[k].Table
                IN  Sprintf(FmtSourceAll,
                            <<t.Schema, t.Name, t.Schema, t.Name, Itoa(rowsPerTable)>>)])
    IN  Join(unionQueries, <<" ","U","N","I","O","N"," ","A","L","L"," ">>)

\* Summary without the limit of 10 tables.
SummaryUncapped(matches) ==
    LET queries ==
            AsSeq([i \in 1..Len(matches) |->
                LET m == matches[i]
                IN  Sprintf(FmtSummary,
                            <<m.Table.Schema, m.Table.Name,
                              FormatRounded(FracMul(m.Score, <<100, 1>>)),
                              m.MatchedOn, m.Table.Schema, m.Table.Name>>)])
    IN  Join(queries, <<" ","U","N","I","O","N"," ","A","L","L"," ">>) \o <<" ","O","R","D","E","R"," ","B","Y"," ","r","o","w","_","c","o","u","n","t"," ","D","E","S",
        "C">>

\* Lower confidence matches - show a summary of what was found
Summary(matches) ==
    LET queries ==
            AsSeq([i \in 1..Min({10, Len(matches)}) |->
                LET m == matches[i]
                IN  Sprintf(FmtSummary,
                            <<m.Table.Schema, m.Table.Name,
                              FormatRounded(FracMul(m.Score, <<100, 1>>)),
                              m.MatchedOn, m.Table.Schema, m.Table.Name>>)])
    IN  Join(queries, <<" ","U","N","I","O","N"," ","A","L","L"," ">>) \o <<" ","O","R","D","E","R"," ","B","Y"," ","r","o","w","_","c","o","u","n","t"," ","D","E","S",
        "C">>

\* matchSearchQuery once the matches are known.
SearchSQL(matches, similarMatches, commonCols) ==
    IF Len(matches) = 0 THEN SqlAvailable
    \* If only one table matches, show its data
    ELSE IF Len(matches) = 1
    THEN Sprintf(FmtSelect50, <<matches[1].Table.Schema, matches[1].Table.Name>>)
    ELSE IF Len(similarMatches) > 1
    THEN IF Len(commonCols) > 0
         THEN UnionCommon(similarMatches, commonCols)
         ELSE UnionAll(similarMatches)
    \* Single high-confidence match
    ELSE IF FracLess(Frac(3, 5), matches[1].Score)
    THEN Sprintf(FmtSelect50, <<matches[1].Table.Schema, matches[1].Table.Name>>)
    ELSE Summary(matches)

\* matchSearchQuery giving up when no table matches.
matchSearchQueryNoListing(query, s) ==
    With(ExtractKeywords(query), LAMBDA keywords :
         IF Len(keywords) = 0 THEN <<>>
         ELSE With(findSemanticMatches(keywords, s), LAMBDA matches :
                   IF Len(matches) = 0 THEN <<>>
                   ELSE With(SimilarMatches(matches), LAMBDA similarMatches :
                             SearchSQL(matches, similarMatches,
                                       findCommonColumns(similarMatches)))))

matchSearchQuery(query, s) ==
    With(ExtractKeywords(query), LAMBDA keywords :
         IF Len(keywords) = 0 THEN <<>>
         \* Use semantic matching to find related tables/columns
         ELSE With(findSemanticMatches(keywords, s), LAMBDA matches :
                   With(SimilarMatches(matches), LAMBDA similarMatches :
                        SearchSQL(matches, similarMatches,
                                  findCommonColumns(similarMatches)))))

\* ------------------------------------------------------------------------
\* The learned predictor.  What QueryTrainer.Predict returns depends on
\* trained weights, which the model leaves open: a prediction is any of the
\* outcomes Predict can return.

PredictError == [err |-> TRUE, sql |-> <<>>, confidence |-> Zero, asked |-> TRUE]
Prediction(sql, confidence) ==
    [err |-> FALSE, sql |-> sql, confidence |-> confidence, asked |-> TRUE]

\* ------------------------------------------------------------------------
\* Inputs of the engine.

\* All sequences of distinct elements of pool of length at most n.
DistinctSeqs(pool, n) ==
    UNION {{s \in [1..k -> pool] : \A i, j \in 1..k : i # j => s[i] # s[j]} : k \in 0..n}

Col(name) == Column(name, FALSE, <<>>)

\* A table per matcher: a plain table, one with a comment, and one whose
\* short mixed-case name holds a digit, with a point geometry ahead of a
\* line geometry.
EnginePool == {
    Table(<<"p","u","b","l","i","c">>, <<"u","s","e","r","s">>, <<Col(<<"i","d">>), Col(<<"n","a","m","e">>), Col(<<"e","m","a","i","l">>)>>, <<>>),
    Table(<<"p","u","b","l","i","c">>, <<"o","r","d","e","r","s">>, <<Col(<<"i","d">>), Col(<<"u","s","e","r","_","i","d">>), Col(<<"t","o","t","a","l">>)>>,
          <<"c","u","s","t","o","m","e","r"," ","p","u","r","c","h","a","s","e","s">>),
    Table(<<"g","i","s">>, <<"T","2">>,
          <<Col(<<"i","d">>), Column(<<"p","t">>, TRUE, <<"P","O","I","N","T">>),
            Column(<<"g","e","o","m">>, TRUE, <<"L","I","N","E","S","T","R","I","N","G">>)>>, <<>>) }

Schemas ==
    {NilSchema}
    \cup {SchemaCache(t, g) : t \in DistinctSeqs(EnginePool, MaxTables), g \in BOOLEAN}

Queries == {
    <<"h","o","w"," ","m","a","n","y"," ","u","s","e","r","s">>,
    <<"H","o","w"," ","m","a","n","y"," ","r","e","c","o","r","d","s"," ","i","n"," ","o","r","d",
        "e","r","s">>,
    <<"c","o","u","n","t"," ","o","f"," ","u","s","e","r","s">>,
    <<"u","s","e","r","s"," ","c","o","u","n","t">>,
    <<"h","o","w"," ","m","a","n","y"," ","u","s","e","r","s"," ","o","r","d","e","r","s"," ","c",
        "o","u","n","t">>,
    <<"h","o","w"," ","m","a","n","y"," ","r","e","c","o","r","d","s"," ","i","n"," ","e","a","c",
        "h"," ","t","a","b","l","e">>,
    <<"h","o","w"," ","m","a","n","y"," ","u","s","e","r","s"," ","i","n"," ","a","l","l"," ","t",
        "a","b","l","e","s">>,
    <<"s","h","o","w"," ","m","e"," ","t","h","e"," ","f","i","r","s","t"," ","1","0"," ","u","s",
        "e","r","s">>,
    <<"S","h","o","w"," ","m","e"," ","u","s","e","r","s">>,
    <<"l","i","s","t"," ","o","r","d","e","r","s">>,
    <<"s","h","o","w"," ","1","0"," ","o","r","d","e","r","s">>,
    <<"d","i","s","p","l","a","y"," ","t","h","e"," ","f","i","r","s","t"," ","5"," ","t","2">>,
    <<"s","h","o","w"," ","2">>,
    <<"s","h","o","w"," ","f","o","o"," ","l","i","s","t"," ","3"," ","u","s","e","r","s">>,
    <<"s","h","o","w"," ","t","a","b","l","e","s">>,
    <<"W","h","a","t"," ","a","r","e"," ","t","h","e"," ","l","a","r","g","e","s","t"," ","t","a",
        "b","l","e","s","?">>,
    <<"l","a","r","g","e","s","t"," ","t","a","b","l","e","s">>,
    <<"d","e","s","c","r","i","b","e"," ","u","s","e","r","s">>,
    <<"F","i","n","d"," ","r","o","a","d","s"," ","w","i","t","h","i","n"," ","1","k","m">>,
    <<"S","h","o","w"," ","t","2"," ","w","i","t","h","i","n"," ","5","0","0","m">>,
    <<"m","i","l","l","s"," ","w","i","t","h","i","n"," ","2",".","5"," ","m">>,
    <<"t","o","t","a","l"," ","l","e","n","g","t","h"," ","o","f"," ","r","o","a","d","s">>,
    <<"l","e","n","g","t","h"," ","o","f"," ","r","o","a","d","s">>,
    <<"f","e","t","c","h"," ","a","l","l"," ","o","r","d","e","r","s">>,
    <<"d","o"," ","i"," ","h","a","v","e"," ","a","n","y"," ","u","s","e","r"," ","d","a","t","a">>,
    <<"w","h","i","c","h"," ","t","a","b","l","e","s"," ","c","o","n","t","a","i","n"," ","e","m",
        "a","i","l">>,
    <<"p","u","r","c","h","a","s","e","s">>,
    <<"t","2">>,
    <<" "," ","H","i","!"," "," ">> }

Contexts == {<<>>, <<"p","r","e","v","i","o","u","s",":"," ","S","E","L","E","C","T"," ","1">>}

\* What the call is given when it does not ask the predictor.
NotAsked == [err |-> TRUE, sql |-> <<>>, confidence |-> Zero, asked |-> FALSE]

Predictions == {
    PredictError,
    Prediction(<<>>, Frac(1, 2)),
    Prediction(<<"S","E","L","E","C","T"," ","n","a","m","e"," ","F","R","O","M"," ","u","s","e","r","s">>, Frac(7, 10)),
    Prediction(<<"S","E","L","E","C","T"," ","1">>, Frac(7, 10)) }

\* ------------------------------------------------------------------------
\* isValidSQLStructure

validStarts == <<<<"s","e","l","e","c","t">>, <<"i","n","s","e","r","t">>, <<"u","p","d","a","t","e">>, <<"d","e","l","e","t","e">>, <<"w","i","t","h">>, <<"c","r","e","a","t","e">>,
                 <<"a","l","t","e","r">>, <<"d","r","o","p">>>>

\* strings.Count(s, c) for a one-character c
Count(s, c) == Cardinality({i \in 1..Len(s) : s[i] = c})

\* isValidSQLStructure without the FROM that a SELECT must have.
isValidSQLStructureNoFrom(sql0) ==
    With(TrimSpace(ToLower(sql0)), LAMBDA sql :
         /\ sql # <<>>
         /\ \E i \in 1..Len(validStarts) : HasPrefix(sql, validStarts[i])
         /\ Count(sql, "(") = Count(sql, ")"))

isValidSQLStructure(sql0) ==
    With(TrimSpace(ToLower(sql0)), LAMBDA sql :
         /\ sql # <<>>
         \* Must start with a SQL keyword
         /\ \E i \in 1..Len(validStarts) : HasPrefix(sql, validStarts[i])
         \* For SELECT, must have FROM
         /\ ~(HasPrefix(sql, <<"s","e","l","e","c","t">>) /\ ~Contains(sql, <<"f","r","o","m">>))
         \* Basic balanced parentheses check
         /\ Count(sql, "(") = Count(sql, ")"))

\* ------------------------------------------------------------------------
\* QueryEngine.GenerateSQL

\* An order with the show matcher ahead of the count matcher.
MatcherOrderShowFirst ==
    <<"show", "count", "table", "spatial", "select", "search", "fallback">>
\* The matchers in the order GenerateSQL calls them; "fallback" is the loop
\* over the tables that closes the function.
MatcherOrder ==
    <<"count", "show", "table", "spatial", "select", "search", "fallback">>

\* Fallback: try to extract table name and do basic select
LiteralFallback(query, s) ==
    LET hits == {i \in 1..Len(s.Tables) : Contains(query, ToLower(s.Tables[i].Name))}
    IN  IF hits = {} THEN <<>>
        ELSE Sprintf(FmtSelect50, <<s.Tables[Min(hits)].Schema, s.Tables[Min(hits)].Name>>)

\* Whether GenerateSQL calls matcher m at all: the spatial matcher is behind
\* the HasPostGIS flag.
Consulted(m, s) == m # "spatial" \/ s.HasPostGIS

RunMatcher(m, query, s) ==
    CASE m = "count" -> matchCountQuery(query, s)
      [] m = "show" -> matchShowQuery(query, s)
      [] m = "table" -> matchTableQuery(query, s)
      [] m = "spatial" -> matchSpatialQuery(query, s)
      [] m = "select" -> matchSelectQuery(query, s)
      [] m = "search" -> matchSearchQuery(query, s)
      [] m = "fallback" -> LiteralFallback(query, s)

\* The outcome of a call: the SQL and the error returned ("" and nil are
\* <<>>), and what the call did on the way: whether it asked the predictor,
\* which matchers it ran, what each returned, and who produced the SQL.
Outcome(sql, err, nnConsulted, tried, outs, by) ==
    [sql |-> sql, err |-> err, nnConsulted |-> nnConsulted, tried |-> tried,
     outs |-> outs, by |-> by]

ErrNoSchema == <<"n","o"," ","s","c","h","e","m","a"," ","l","o","a","d","e","d">>
\* fmt.Errorf("could not understand query: %s", query)
ErrNotUnderstood(query) == <<"c","o","u","l","d"," ","n","o","t"," ","u","n","d","e","r","s","t","a","n","d"," ","q","u",
        "e","r","y",":"," ">> \o query

\* The cascade from matcher k on; tried holds the matchers run so far and
\* outs what each of them returned.
RECURSIVE Cascade(_, _, _, _, _, _)
Cascade(query, s, k, tried, outs, nnConsulted) ==
    IF k > Len(MatcherOrder)
    THEN Outcome(<<>>, ErrNotUnderstood(query), nnConsulted, tried, outs, "none")
    ELSE IF ~Consulted(MatcherOrder[k], s)
    THEN Cascade(query, s, k + 1, tried, outs, nnConsulted)
    ELSE With(RunMatcher(MatcherOrder[k], query, s), LAMBDA out :
              IF out # <<>>
              THEN Outcome(out, <<>>, nnConsulted, Append(tried, MatcherOrder[k]),
                           Append(outs, out), MatcherOrder[k])
              ELSE Cascade(query, s, k + 1, Append(tried, MatcherOrder[k]),
                           Append(outs, out), nnConsulted))

\* strings.TrimSpace(strings.ToLower(query))
Normalize(query) == TrimSpace(ToLower(query))

\* The rule-based part of GenerateSQL.
Rules(query, s, nnConsulted) == Cascade(Normalize(query), s, 1, <<>>, <<>>, nnConsulted)

\* Accepted without the sanity check of the text.
AcceptedAnyText(prediction) ==
    /\ ~prediction.err
    /\ FracLess(Frac(3, 5), prediction.confidence)

\* Whether the answer of the predictor is returned: no error, confidence
\* above 0.6, and SQL that passes isValidSQLStructure.
Accepted(prediction) ==
    /\ ~prediction.err
    /\ FracLess(Frac(3, 5), prediction.confidence)
    /\ isValidSQLStructure(prediction.sql)

\* A GenerateSQL that asks the predictor before it looks at the schema.
GenerateSQLPredictorFirst(query, context, s, use, trainer, prediction) ==
    IF use /\ trainer = "trained" /\ Accepted(prediction)
    THEN Outcome(prediction.sql, <<>>, TRUE, <<>>, <<>>, "nn")
    ELSE IF s.nil THEN Outcome(<<>>, ErrNoSchema, use /\ trainer = "trained", <<>>, <<>>, "none")
    ELSE Rules(query, s, use /\ trainer = "trained")

\* A GenerateSQL whose rules read the context ahead of the query.
GenerateSQLContextRead(query, context, s, use, trainer, prediction) ==
    IF s.nil THEN Outcome(<<>>, ErrNoSchema, FALSE, <<>>, <<>>, "none")
    ELSE IF use /\ trainer = "trained" /\ Accepted(prediction)
    THEN Outcome(prediction.sql, <<>>, TRUE, <<>>, <<>>, "nn")
    ELSE Rules(context \o <<" ">> \o query, s, use /\ trainer = "trained")

GenerateSQL(query, context, s, use, trainer, prediction) ==
    IF s.nil THEN Outcome(<<>>, ErrNoSchema, FALSE, <<>>, <<>>, "none")
    \* Try neural network prediction first if enabled and trained
    ELSE IF use /\ trainer = "trained" /\ Accepted(prediction)
    THEN Outcome(prediction.sql, <<>>, TRUE, <<>>, <<>>, "nn")
    \* Fall back to rule-based matching
    ELSE Rules(query, s, use /\ trainer = "trained")

\* ------------------------------------------------------------------------
\* Inputs of findTable.

NoColumns == <<>>

\* Tables for exercising findTable: names that contain one another, a
\* singular and a plural of the same word, and a capitalised name.
FindPool == {
    Table(<<"p","u","b","l","i","c">>, <<"u","s","e","r","s">>, NoColumns, <<>>),
    Table(<<"p","u","b","l","i","c">>, <<"u","s","e","r","_","r","o","l","e","s">>, NoColumns, <<>>),
    Table(<<"p","u","b","l","i","c">>, <<"u","s","e","r">>, NoColumns, <<>>),
    Table(<<"d","a","t","a">>, <<"c","u","s","t","o","m","e","r">>, NoColumns, <<>>),
    Table(<<"s","a","l","e","s">>, <<"O","r","d","e","r","s">>, NoColumns, <<>>) }

FindSchemas == {SchemaCache(t, FALSE) : t \in DistinctSeqs(FindPool, MaxTables)}

FindNames == {
    <<"u","s","e","r","s">>, <<"u","s","e","r">>, <<"c","u","s","t","o","m","e","r","s">>, <<"c","u","s","t","o","m","e","r">>, <<"o","r","d","e","r","s">>, <<"O","R","D","E","R","S">>,
    <<"o","r","d","e","r">>, <<"r","o","l","e">>, <<"n","o","n","e","x","i","s","t","e","n","t">> }

\* ------------------------------------------------------------------------
\* The state machine.

NoCall == [op |-> "none"]

\* engine.findTable(name), as the package's tests call it.
FindTableCall(name) ==
    /\ pc = "idle"
    /\ ~schema.nil
    /\ pc' = "done"
    /\ call' = [op |-> "findTable", name |-> name, found |-> findTable(name, schema)]
    /\ UNCHANGED <<schema, useNN, nnTrainer>>
    /\ UNCHANGED tuiVars
\* The caller takes the outcome of the call that returned.
Return ==
    /\ pc = "done"
    /\ pc' = "idle"
    /\ call' = NoCall
    /\ UNCHANGED <<schema, useNN, nnTrainer>>
    /\ UNCHANGED tuiVars
\* QueryEngine.SetSchema, called between the calls of a sequential caller.
SetSchema(s) ==
    /\ pc = "idle"
    /\ schema' = s
    /\ UNCHANGED <<useNN, nnTrainer, pc, call>>
    /\ UNCHANGED tuiVars
\* findTable as a function of its inputs: NewQueryEngine(schema), then
\* findTable(name) for names and schemas of the pools above.
InitFind ==
    /\ NoTui
    /\ schema \in FindSchemas
    /\ useNN = TRUE
    /\ nnTrainer = "nil"
    /\ pc = "idle"
    /\ call = NoCall

NextFind ==
    \/ \E name \in FindNames : FindTableCall(name)
    \/ Return
    \/ \E s \in FindSchemas : SetSchema(s)

SpecFind == InitFind /\ [][NextFind]_vars

\* ------------------------------------------------------------------------
\* The engine used by one caller at a time.

\* engine.GenerateSQL(query, context); prediction is what the predictor
\* answers if the call asks it.
CallGenerateSQL(query, context, prediction) ==
    /\ pc = "idle"
    /\ pc' = "done"
    /\ call' = With(GenerateSQL(query, context, schema, useNN, nnTrainer, prediction),
                    LAMBDA out :
                        [op |-> "GenerateSQL", query |-> query, context |-> context,
                         sql |-> out.sql, err |-> out.err,
                         prediction |-> prediction,
                         nnConsulted |-> out.nnConsulted,
                         tried |-> out.tried, outs |-> out.outs, by |-> out.by])
    /\ UNCHANGED <<schema, useNN, nnTrainer>>
    /\ UNCHANGED tuiVars
\* QueryEngine.SetUseNN
SetUseNN(use) ==
    /\ pc = "idle"
    /\ useNN' = use
    /\ UNCHANGED <<schema, nnTrainer, pc, call>>
    /\ UNCHANGED tuiVars
\* QueryEngine.TrainFromHistory: an error without a trainer; with one, the
\* model is trained when QueryTrainer.Train succeeds (ok).
TrainFromHistory(ok) ==
    /\ pc = "idle"
    /\ nnTrainer' = IF nnTrainer # "nil" /\ ok THEN "trained" ELSE nnTrainer
    /\ UNCHANGED <<schema, useNN, pc, call>>
    /\ UNCHANGED tuiVars
\* The answers the predictor can give to the next call: it is asked only
\* when the NN is enabled and the trainer holds a trained model.
Predicted == IF useNN /\ nnTrainer = "trained" THEN Predictions ELSE {NotAsked}

\* NewQueryEngine(schema): NN enabled; the trainer is nil when
\* NewQueryTrainer fails, and trained when it loads a saved model.
Init ==
    /\ NoTui
    /\ schema \in Schemas
    /\ useNN = TRUE
    /\ nnTrainer \in {"nil", "untrained", "trained"}
    /\ pc = "idle"
    /\ call = NoCall

Next ==
    \/ \E q \in Queries, c \in Contexts, p \in Predicted : CallGenerateSQL(q, c, p)
    \/ Return
    \/ \E s \in Schemas : SetSchema(s)
    \/ \E use \in BOOLEAN : SetUseNN(use)
    \/ \E ok \in BOOLEAN : TrainFromHistory(ok)

Spec == Init /\ [][Next]_vars

\* ------------------------------------------------------------------------
\* SetSchema while a GenerateSQL call is in flight.  QueryEngine has no lock
\* and e.schema is a plain pointer: every read of e.schema by the call sees
\* the pointer the engine holds at that moment.  The call is taken one
\* matcher at a time, each matcher reading e.schema once for all its uses;
\* reads interleaved inside a matcher would only add outcomes.

\* Whether matcher m, run on query, reads through e.schema: on a nil pointer
\* that read is a nil dereference and the call panics.
Derefs(m, query) ==
    CASE m = "count" ->
             \/ Contains(query, <<"e","a","c","h"," ","t","a","b","l","e">>) \/ Contains(query, <<"a","l","l"," ","t","a","b","l","e","s">>)
             \/ \E i \in 1..Len(countPatterns) :
                    Len(FindStringSubmatch(countPatterns[i], query)) > 1
      [] m = "show" ->
             \E i \in 1..Len(showPatterns) :
                 With(FindStringSubmatch(showPatterns[i], query), LAMBDA matches :
                      /\ Len(matches) > 1
                      /\ ShowGroups(matches, 0, <<"5","0">>, <<>>).tableName # <<>>)
      [] m = "table" ->
             /\ ~(/\ Contains(query, <<"t","a","b","l","e","s">>)
                  /\ \/ Contains(query, <<"l","i","s","t">>)
                     \/ Contains(query, <<"s","h","o","w">>)
                     \/ Contains(query, <<"w","h","a","t">>))
             /\ \/ \E i \in 1..Len(colPatterns) :
                       Len(FindStringSubmatch(colPatterns[i], query)) > 1
                \/ Contains(query, <<"l","a","r","g","e","s","t">>) /\ Contains(query, <<"t","a","b","l","e">>)
      \* if e.schema.HasPostGIS
      [] m = "spatial" -> TRUE
      [] m = "select" ->
             \E i \in 1..Len(selectPatterns) :
                 Len(FindStringSubmatch(selectPatterns[i], query)) > 1
      [] m = "search" -> ExtractKeywords(query) # <<>>
      \* for _, table := range e.schema.Tables
      [] m = "fallback" -> TRUE

RaceQueries == {
    <<"s","h","o","w"," ","1","0"," ","o","r","d","e","r","s">>,
    <<"h","o","w"," ","m","a","n","y"," ","u","s","e","r","s">>,
    <<"l","a","r","g","e","s","t"," ","t","a","b","l","e","s">>,
    <<"f","e","t","c","h"," ","a","l","l"," ","o","r","d","e","r","s">>,
    <<"t","2">>,
    <<" "," ","H","i","!"," "," ">> }

\* The record of a call in flight: k is the matcher to run next, seen the
\* schemas the engine has held since the call began.
InFlight(query, k, tried, seen) ==
    [op |-> "GenerateSQL", query |-> query, context |-> <<>>, k |-> k, tried |-> tried,
     seen |-> seen, sql |-> <<>>, err |-> <<>>, panic |-> FALSE]

\* GenerateSQL up to its nil check.
RaceBegin(query) ==
    /\ pc = "idle"
    /\ IF schema.nil
       THEN /\ pc' = "done"
            /\ call' = [InFlight(query, 1, <<>>, <<schema>>) EXCEPT !.err = ErrNoSchema]
       ELSE /\ pc' = "running"
            /\ call' = InFlight(query, 1, <<>>, <<schema>>)
    /\ UNCHANGED <<schema, useNN, nnTrainer>>
    /\ UNCHANGED tuiVars
\* What the call in flight becomes once matcher m has returned out.
AfterMatcher(c, m, out) ==
    IF out # <<>> THEN [c EXCEPT !.tried = Append(c.tried, m), !.sql = out]
    ELSE IF c.k = Len(MatcherOrder)
    THEN [c EXCEPT !.tried = Append(c.tried, m),
                   !.err = ErrNotUnderstood(Normalize(c.query))]
    ELSE [c EXCEPT !.tried = Append(c.tried, m), !.k = c.k + 1]

\* The next matcher of the call in flight, run on the schema the engine
\* holds now.
RaceStep ==
    /\ pc = "running"
    /\ call' = With(MatcherOrder[call.k], LAMBDA m :
                    IF schema.nil /\ Derefs(m, Normalize(call.query))
                    THEN [call EXCEPT !.panic = TRUE]
                    ELSE IF ~Consulted(m, schema)
                    THEN [call EXCEPT !.k = call.k + 1]
                    ELSE AfterMatcher(call, m, RunMatcher(m, Normalize(call.query), schema)))
    /\ pc' = IF call'.panic \/ call'.sql # <<>> \/ call'.err # <<>> THEN "done" ELSE "running"
    /\ UNCHANGED <<schema, useNN, nnTrainer>>
    /\ UNCHANGED tuiVars
\* QueryEngine.SetSchema, called by another goroutine during the call.
RaceSetSchema(s) ==
    /\ pc = "running"
    /\ Len(call.seen) <= MaxSwaps
    /\ schema' = s
    /\ call' = [call EXCEPT !.seen = Append(call.seen, s)]
    /\ UNCHANGED <<useNN, nnTrainer, pc>>
    /\ UNCHANGED tuiVars
\* NewQueryEngine(schema) where NewQueryTrainer fails, so that the call is
\* answered by the rules.
InitRace ==
    /\ NoTui
    /\ schema \in Schemas
    /\ useNN = TRUE
    /\ nnTrainer = "nil"
    /\ pc = "idle"
    /\ call = NoCall

NextRace ==
    \/ \E q \in RaceQueries : RaceBegin(q)
    \/ RaceStep
    \/ \E s \in Schemas : RaceSetSchema(s)
    \/ Return

SpecRace == InitRace /\ [][NextRace]_vars


\* ------------------------------------------------------------------------
\* The engine with the predictor's answers spelled out: the calls of one
\* caller over a query for each matcher and one that none answers, with a
\* predictor that may answer with any kind of text.

PredictorQueries == {
    <<"h","o","w"," ","m","a","n","y"," ","u","s","e","r","s">>,
    <<"s","h","o","w"," ","1","0"," ","o","r","d","e","r","s">>,
    <<"d","e","s","c","r","i","b","e"," ","u","s","e","r","s">>,
    <<"F","i","n","d"," ","r","o","a","d","s"," ","w","i","t","h","i","n"," ","1","k","m">>,
    <<"f","e","t","c","h"," ","a","l","l"," ","o","r","d","e","r","s">>,
    <<"p","u","r","c","h","a","s","e","s">>,
    <<"t","2">>,
    <<" "," ","H","i","!"," "," ">> }

\* Predict's outcomes: an error; no token, so no text at confidence 0.5;
\* otherwise whatever text the tokens decode to at confidence 0.7.
PredictorAnswers == Predictions \cup {
    Prediction(<<>>, Frac(7, 10)),
    Prediction(<<"u","s","e","r","s">>, Frac(7, 10)),
    Prediction(<<" "," ","S","e","l","e","c","t"," ","n","a","m","e","\n","F","R","O","M"," ","u","s","e",
        "r","s"," ">>, Frac(7, 10)),
    Prediction(<<"S","E","L","E","C","T"," ","C","O","U","N","T","("," ","F","R","O","M"," ","u","s","e","r",
        "s">>, Frac(7, 10)),
    Prediction(<<"d","r","o","p"," ","t","a","b","l","e"," ","u","s","e","r","s">>, Frac(7, 10)) }

PredictedAnswers == IF useNN /\ nnTrainer = "trained" THEN PredictorAnswers ELSE {NotAsked}

NextPredictor ==
    \/ \E q \in PredictorQueries, c \in Contexts, p \in PredictedAnswers :
          CallGenerateSQL(q, c, p)
    \/ Return
    \/ \E s \in Schemas : SetSchema(s)
    \/ \E use \in BOOLEAN : SetUseNN(use)
    \/ \E ok \in BOOLEAN : TrainFromHistory(ok)

SpecPredictor == Init /\ [][NextPredictor]_vars

\* ------------------------------------------------------------------------
\* findSemanticMatches as a function of its inputs: a matcher over a schema
\* of the pool below, asked for the matches of a list of keywords.

MaxMatched == 3
MaxKeywords == 2

\* Two tables that share a column name, and one with a comment and a name
\* of two words.
MatchPool == {
    Table(<<"p","u","b","l","i","c">>, <<"u","s","e","r","s">>, <<Col(<<"i","d">>), Col(<<"n","a","m","e">>), Col(<<"e","m","a","i","l">>)>>, <<>>),
    Table(<<"p","u","b","l","i","c">>, <<"p","r","o","d","u","c","t","s">>, <<Col(<<"i","d">>), Col(<<"n","a","m","e">>)>>, <<>>),
    Table(<<"p","u","b","l","i","c">>, <<"o","r","d","e","r","_","i","t","e","m","s">>, <<Col(<<"i","d">>), Col(<<"t","o","t","a","l">>)>>,
          <<"c","u","s","t","o","m","e","r"," ","p","u","r","c","h","a","s","e","s">>) }

MatchSchemas == {SchemaCache(t, FALSE) : t \in DistinctSeqs(MatchPool, MaxMatched)}

MatchWords == {<<"n","a","m","e">>, <<"i","t","e","m","s">>, <<"p","u","r","c","h","a","s","e","s">>, <<"h","a","s">>, <<"u","s","e","r">>}

KeywordLists == DistinctSeqs(MatchWords, MaxKeywords)

\* matcher.findSemanticMatches(keywords)
FindSemanticMatchesCall(keywords) ==
    /\ pc = "idle"
    /\ pc' = "done"
    /\ call' = [op |-> "findSemanticMatches", keywords |-> keywords,
                matches |-> findSemanticMatches(keywords, schema)]
    /\ UNCHANGED <<schema, useNN, nnTrainer>>
    /\ UNCHANGED tuiVars
InitMatch ==
    /\ NoTui
    /\ schema \in MatchSchemas
    /\ useNN = TRUE
    /\ nnTrainer = "nil"
    /\ pc = "idle"
    /\ call = NoCall

NextMatch ==
    \/ \E keywords \in KeywordLists : FindSemanticMatchesCall(keywords)
    \/ Return
    \/ \E s \in MatchSchemas : SetSchema(s)

SpecMatch == InitMatch /\ [][NextMatch]_vars

\* ------------------------------------------------------------------------
\* calculateMatchScore as a function of its inputs: keywords as a query
\* gives them, against names as a schema holds them.

ScoreKeywords == {
    <<>>, <<"u","s","e","r","s">>, <<"U","s","e","r","s">>, <<"u","s","e","r">>, <<"u","s","e">>, <<"n","a","m","e">>, <<"p","u","r","c","h","a","s","e">>,
    <<"c","u","s","t","o","m","e","r">>, <<"o","r","d","e","r">>, <<"i","t","e","m","s">>, <<"o","r","d","e","r","i","n","g">>, <<"e","m","i","a","l">> }

ScoreEntities == {
    <<>>, <<"u","s","e","r","s">>, <<"U","s","e","r","s">>, <<"u","s","e","r","_","i","d">>, <<"u","s","e","r","n","a","m","e">>, <<"n","a","m","e">>, <<"p","u","r","c","h","a","s","e","s">>,
    <<"c","u","s","t","o","m","e","r","s">>, <<"o","r","d","e","r","s">>, <<"O","r","d","e","r","I","t","e","m","s">>, <<"o","r","d","e","r","-","i","t","e","m","s">>, <<"e","m","a","i","l">> }

\* matcher.calculateMatchScore(keyword, entityName)
CalculateMatchScoreCall(keyword, entityName) ==
    /\ pc = "idle"
    /\ pc' = "done"
    /\ call' = [op |-> "calculateMatchScore", keyword |-> keyword,
                entityName |-> entityName,
                score |-> calculateMatchScore(keyword, entityName)]
    /\ UNCHANGED <<schema, useNN, nnTrainer>>
    /\ UNCHANGED tuiVars
InitScore ==
    /\ NoTui
    /\ schema = SchemaCache(<<>>, FALSE)
    /\ useNN = TRUE
    /\ nnTrainer = "nil"
    /\ pc = "idle"
    /\ call = NoCall

NextScore ==
    \/ \E keyword \in ScoreKeywords, entityName \in ScoreEntities :
          CalculateMatchScoreCall(keyword, entityName)
    \/ Return

SpecScore == InitScore /\ [][NextScore]_vars

\* ------------------------------------------------------------------------
\* matchSearchQuery as a function of its inputs: an engine over one of the
\* schemas below, asked with a query as GenerateSQL hands it on (lower
\* case, trimmed).

Users == Table(<<"p","u","b","l","i","c">>, <<"u","s","e","r","s">>, <<Col(<<"i","d">>), Col(<<"n","a","m","e">>), Col(<<"e","m","a","i","l">>)>>, <<>>)
Products == Table(<<"p","u","b","l","i","c">>, <<"p","r","o","d","u","c","t","s">>, <<Col(<<"i","d">>), Col(<<"n","a","m","e">>)>>, <<>>)
OrderItems == Table(<<"p","u","b","l","i","c">>, <<"o","r","d","e","r","_","i","t","e","m","s">>, <<Col(<<"i","d">>), Col(<<"t","o","t","a","l">>)>>,
                    <<"c","u","s","t","o","m","e","r"," ","p","u","r","c","h","a","s","e","s">>)
BankAccounts == Table(<<"p","u","b","l","i","c">>, <<"b","a","n","k","a","c","c","o","u","n","t","s">>, <<Col(<<"i","d">>), Col(<<"i","b","a","n">>)>>, <<>>)

Names == Table(<<"p","u","b","l","i","c">>, <<"n","a","m","e","s">>, <<Col(<<"l","a","b","e","l">>)>>, <<>>)

\* Tables that match a keyword weakly, through a word of their comment.
Weak(name) == Table(<<"p","u","b","l","i","c">>, name, <<Col(<<"i","d">>)>>, <<"r","e","g","i","o","n","a","l"," ","p","u","r","c","h","a","s","e","r","s">>)
WeakTables == <<Weak(<<"w","0","1">>), Weak(<<"w","0","2">>), Weak(<<"w","0","3">>), Weak(<<"w","0","4">>), Weak(<<"w","0","5">>),
                Weak(<<"w","0","6">>), Weak(<<"w","0","7">>), Weak(<<"w","0","8">>), Weak(<<"w","0","9">>), Weak(<<"w","1","0">>)>>

\* Six tables that match one keyword alike; all but the last share two
\* columns.
Sales(suffix, columns) == Table(<<"p","u","b","l","i","c">>, <<"s","a","l","e","s","_">> \o suffix, columns, <<>>)
SalesTables == <<
    Sales(<<"a">>, <<Col(<<"i","d">>), Col(<<"r","e","g","i","o","n">>), Col(<<"a","m","o","u","n","t">>)>>),
    Sales(<<"b">>, <<Col(<<"a","m","o","u","n","t">>), Col(<<"i","d">>), Col(<<"r","e","g","i","o","n">>)>>),
    Sales(<<"c">>, <<Col(<<"i","d">>), Col(<<"a","m","o","u","n","t">>)>>),
    Sales(<<"d">>, <<Col(<<"i","d">>), Col(<<"a","m","o","u","n","t">>), Col(<<"n","o","t","e">>)>>),
    Sales(<<"e">>, <<Col(<<"i","d">>), Col(<<"a","m","o","u","n","t">>), Col(<<"r","e","g","i","o","n">>)>>),
    Sales(<<"f">>, <<Col(<<"i","d">>)>>) >>

SearchSchemas == {SchemaCache(tables, FALSE) : tables \in {
    <<>>,
    <<Users>>,
    <<Users, Names>>,
    <<Users, Products, OrderItems>>,
    <<OrderItems, Users>>,
    <<Products, Weak(<<"w","0","1">>)>>,
    <<BankAccounts, Weak(<<"w","0","1">>)>>,
    <<BankAccounts>> \o WeakTables,
    SalesTables,
    <<Users, OrderItems>> \o SubSeq(SalesTables, 1, 2) }}

SearchQueries == {
    <<"h","i","!">>,
    <<"f","i","n","d"," ","i","t">>,
    <<"f","i","n","d"," ","z","e","b","r","a">>,
    <<"f","i","n","d"," ","s","a","l","e","s">>,
    <<"f","i","n","d"," ","a","c","c","o","u","n","t"," ","h","a","s">>,
    <<"f","i","n","d"," ","p","r","o","d","u","c","t","s"," ","u","s","e">>,
    <<"f","i","n","d"," ","n","a","m","e">>,
    <<"f","i","n","d"," ","n","a","m","e"," ","i","t","e","m","s">>,
    <<"f","i","n","d"," ","t","o","t","a","l"," ","a","m","o","u","n","t">>,
    <<"w","h","i","c","h"," ","t","a","b","l","e","s"," ","c","o","n","t","a","i","n"," ","e","m",
        "a","i","l">>,
    <<"d","o"," ","i"," ","h","a","v","e"," ","a","n","y"," ","u","s","e","r"," ","d","a","t","a">>,
    <<"c","u","s","t","o","m","e","r"," ","d","a","t","a">>,
    <<"p","u","r","c","h","a","s","e","s">> }

\* engine.matchSearchQuery(query)
MatchSearchQueryCall(query) ==
    /\ pc = "idle"
    /\ pc' = "done"
    /\ call' = [op |-> "matchSearchQuery", query |-> query,
                out |-> matchSearchQuery(query, schema)]
    /\ UNCHANGED <<schema, useNN, nnTrainer>>
    /\ UNCHANGED tuiVars
InitSearch ==
    /\ NoTui
    /\ schema \in SearchSchemas
    /\ useNN = TRUE
    /\ nnTrainer = "nil"
    /\ pc = "idle"
    /\ call = NoCall

NextSearch ==
    \/ \E query \in SearchQueries : MatchSearchQueryCall(query)
    \/ Return
    \/ \E s \in SearchSchemas : SetSchema(s)

SpecSearch == InitSearch /\ [][NextSearch]_vars

\* ------------------------------------------------------------------------
\* The query screen (internal/tui/query.go): QueryModel.Update with the
\* commands it starts.  A command is a function the runtime runs on its own
\* goroutine; the message it returns is delivered to Update later.

\* The most queries submitted in one session of the screen.
MaxSubmits == 2

NilResults == [nil |-> TRUE]

QueryResults(rowCount, generatedSQL, naturalQuery) ==
    [nil |-> FALSE, RowCount |-> rowCount, GeneratedSQL |-> generatedSQL,
     NaturalQuery |-> naturalQuery]

ConversationEntry(q, sql, res, err) == [Query |-> q, SQL |-> sql, Results |-> res, Error |-> err]

QueryHistoryEntry(naturalQuery, generatedSQL, rowsAffected) ==
    [NaturalQuery |-> naturalQuery, GeneratedSQL |-> generatedSQL,
     RowsAffected |-> rowsAffected, Success |-> TRUE]

\* AddQueryToHistory trimming from the front: the oldest entries survive.
AddQueryToHistoryKeepOldest(queryHistory, maxHistorySize, entry) ==
    With(<<entry>> \o queryHistory, LAMBDA all :
         IF Len(all) > maxHistorySize
         THEN SubSeq(all, Len(all) - maxHistorySize + 1, Len(all)) ELSE all)

\* Config.AddQueryToHistory: the new entry in front, then trimmed.
AddQueryToHistory(queryHistory, maxHistorySize, entry) ==
    With(<<entry>> \o queryHistory, LAMBDA all :
         \* Trim to max size
         IF Len(all) > maxHistorySize THEN SubSeq(all, 1, maxHistorySize) ELSE all)

\* The text of one turn of the conversation.
TurnText(entry) ==
    <<"U","s","e","r",":"," ">> \o entry.Query \o <<"\n">>
    \o (IF entry.SQL # <<>> THEN <<"S","Q","L",":"," ">> \o entry.SQL \o <<"\n">> ELSE <<>>)
    \o (IF ~entry.Results.nil /\ entry.Results.RowCount > 0
        THEN <<"(","R","e","t","u","r","n","e","d"," ">> \o Itoa(entry.Results.RowCount) \o <<" ","r","o","w","s",")","\n">> ELSE <<>>)
    \o <<"\n">>

RECURSIVE TurnsText(_, _)
TurnsText(h, k) == IF k > Len(h) THEN <<>> ELSE TurnText(h[k]) \o TurnsText(h, k + 1)

\* getConversationContext over the whole conversation.
getConversationContextAll(h) ==
    IF Len(h) = 0 THEN <<>>
    ELSE <<"P","r","e","v","i","o","u","s"," ","c","o","n","v","e","r","s","a","t","i","o","n",":",
        "\n">> \o TurnsText(h, 1)

\* QueryModel.getConversationContext
getConversationContext(h) ==
    IF Len(h) = 0 THEN <<>>
    \* Only include last 3 turns for context
    ELSE With(IF Len(h) > 3 THEN Len(h) - 3 ELSE 0, LAMBDA start :
              <<"P","r","e","v","i","o","u","s"," ","c","o","n","v","e","r","s","a","t","i","o","n",":",
        "\n">> \o TurnsText(h, start + 1))

\* The texts the user leaves in the editor.
EditorTexts == {<<" ">>, <<"h","o","w"," ","m","a","n","y"," ","u","s","e","r","s">>}

\* The row counts a query reports.
RowCounts == {0, 3}

\* The errors the database gives to a query.
ErrNoConnection == <<"n","o"," ","d","a","t","a","b","a","s","e"," ","c","o","n","n","e","c","t","i","o","n">>
DbErrors == {<<"q","u","e","r","y"," ","f","a","i","l","e","d",":"," ","t","i","m","e","o","u","t">>}

\* What the database does with a query: an error, or rows.
DbOutcomes == {[err |-> e, rows |-> 0] : e \in DbErrors}
              \cup {[err |-> <<>>, rows |-> n] : n \in RowCounts}

\* The engine of the screen: NewQueryEngine(schema) over the schema the
\* screen was opened with.
ScreenSchema == SchemaCache(<<Users>>, FALSE)

\* A key that the editor takes: the text changes, an error shown is cleared.
TypeText(text) ==
    /\ screen = "ScreenQuery"
    /\ editor' = text
    /\ error' = <<>>
    /\ UNCHANGED <<loading, history, results, db>>
    /\ UNCHANGED <<engineVars, configVars, appVars, runtimeVars>>

\* ctrl+s: execute the query in the editor, unless one is loading or the
\* editor is blank.
CtrlS ==
    /\ screen = "ScreenQuery"
    /\ nextId < MaxSubmits
    /\ With(TrimSpace(editor), LAMBDA content :
            IF ~loading /\ content # <<>>
            THEN /\ loading' = TRUE
                 /\ cmds' = cmds \cup {[type |-> "executeQuery", id |-> nextId + 1,
                                        query |-> content]}
                 /\ nextId' = nextId + 1
            ELSE UNCHANGED <<loading, cmds, nextId>>)
    /\ UNCHANGED <<history, results, error, editor, db>>
    /\ UNCHANGED <<engineVars, configVars, appVars, msgs, cancelled, added>>

\* ctrl+c: cancel the query that is loading, or quit.
CtrlC ==
    /\ screen = "ScreenQuery"
    /\ IF loading
       THEN /\ loading' = FALSE
            /\ cancelled' = cancelled \cup
                   {c.id : c \in {d \in cmds \cup msgs :
                                     d.type \in {"executeQuery", "queryExecutedMsg"}}}
            /\ UNCHANGED screen
       ELSE /\ screen' = "Quit"
            /\ UNCHANGED <<loading, cancelled>>
    /\ UNCHANGED <<history, results, error, editor, db>>
    /\ UNCHANGED <<engineVars, configVars, pendingScreen, activeService, activeSchema,
                   queryModel, harvest, cmds, msgs, nextId, added>>

\* The command of connectToDatabase runs: the connection is made or not.
ConnectToDatabase(c, ok) ==
    /\ c \in cmds /\ c.type = "connectToDatabase"
    /\ cmds' = cmds \ {c}
    /\ msgs' = msgs \cup {[type |-> "dbConnectedMsg", id |-> c.id,
                           err |-> IF ok THEN <<>> ELSE <<"c","o","n","n","e","c","t","i","o","n"," ","r","e","f","u","s","e","d">>]}
    /\ UNCHANGED <<engineVars, configVars, queryVars, appVars, nextId, cancelled, added>>

\* dbConnectedMsg
DbConnected(msg) ==
    /\ screen = "ScreenQuery"
    /\ msg \in msgs /\ msg.type = "dbConnectedMsg"
    /\ msgs' = msgs \ {msg}
    /\ IF msg.err # <<>>
       THEN error' = <<"C","o","n","n","e","c","t","i","o","n"," ","f","a","i","l","e","d",":"," ">> \o msg.err /\ UNCHANGED db
       ELSE db' = "open" /\ UNCHANGED error
    /\ UNCHANGED <<loading, history, results, editor>>
    /\ UNCHANGED <<engineVars, configVars, appVars, cmds, nextId, cancelled, added>>

\* The message with which the command of executeQuery(query) ends; dbOutcome
\* is what the database does with the generated SQL.
ExecuteQueryMsg(c, dbOutcome) ==
    IF db = "nil"
    THEN [type |-> "queryExecutedMsg", id |-> c.id, err |-> ErrNoConnection,
          results |-> NilResults]
    ELSE With(GenerateSQL(c.query, getConversationContext(history), schema, useNN,
                          nnTrainer, NotAsked),
              LAMBDA out :
                  IF out.err # <<>>
                  THEN [type |-> "queryExecutedMsg", id |-> c.id,
                        err |-> <<"f","a","i","l","e","d"," ","t","o"," ","g","e","n","e","r","a","t","e"," ","S","Q","L",":",
        " ">> \o out.err,
                        results |-> NilResults]
                  ELSE IF dbOutcome.err # <<>>
                  THEN [type |-> "queryExecutedMsg", id |-> c.id, err |-> dbOutcome.err,
                        results |-> NilResults]
                  ELSE [type |-> "queryExecutedMsg", id |-> c.id, err |-> <<>>,
                        results |-> QueryResults(dbOutcome.rows, out.sql, c.query)])

\* The command of executeQuery runs.
ExecuteQuery(c, dbOutcome) ==
    /\ c \in cmds /\ c.type = "executeQuery"
    /\ cmds' = cmds \ {c}
    /\ msgs' = msgs \cup {ExecuteQueryMsg(c, dbOutcome)}
    /\ UNCHANGED <<engineVars, configVars, queryVars, appVars, nextId, cancelled, added>>

\* queryExecutedMsg
QueryExecuted(msg) ==
    /\ screen = "ScreenQuery"
    /\ msg \in msgs /\ msg.type = "queryExecutedMsg"
    /\ msgs' = msgs \ {msg}
    /\ loading' = FALSE
    /\ IF msg.err # <<>>
       THEN /\ error' = msg.err
            /\ history' = Append(history, ConversationEntry(editor, <<>>, NilResults, msg.err))
            /\ UNCHANGED <<results, QueryHistory, added>>
       ELSE /\ results' = msg.results
            /\ error' = <<>>
            /\ history' = Append(history,
                                 ConversationEntry(msg.results.NaturalQuery,
                                                   msg.results.GeneratedSQL,
                                                   msg.results, <<>>))
            \* Save to config history
            /\ With(QueryHistoryEntry(msg.results.NaturalQuery, msg.results.GeneratedSQL,
                                      msg.results.RowCount),
                    LAMBDA entry :
                        /\ QueryHistory' = AddQueryToHistory(QueryHistory, MaxHistorySize, entry)
                        /\ added' = Append(added, entry))
    \* Clear editor content
    /\ editor' = <<>>
    /\ UNCHANGED <<db, MaxHistorySize, CachedSchemas>>
    /\ UNCHANGED <<engineVars, appVars, cmds, nextId, cancelled>>

\* NewQueryModel(service, schema) followed by QueryModel.Init: nothing
\* loading, no conversation, no connection yet, the command that connects
\* started.
InitQuery ==
    /\ schema = ScreenSchema /\ useNN = TRUE /\ nnTrainer = "nil"
    /\ pc = "idle" /\ call = NoCall
    /\ QueryHistory = <<>> /\ MaxHistorySize = 100 /\ CachedSchemas = <<>>
    /\ loading = FALSE /\ history = <<>> /\ results = NilResults /\ error = <<>>
    /\ editor = <<>> /\ db = "nil"
    /\ screen = "ScreenQuery" /\ pendingScreen = "ScreenMenu"
    /\ activeService = "test" /\ activeSchema = ScreenSchema
    /\ queryModel = [nil |-> FALSE, service |-> "test", schema |-> ScreenSchema]
    /\ harvest = [nil |-> TRUE]
    /\ cmds = {[type |-> "connectToDatabase", id |-> 0]}
    /\ msgs = {} /\ nextId = 0 /\ cancelled = {} /\ added = <<>>

NextQuery ==
    \/ \E text \in EditorTexts : TypeText(text)
    \/ CtrlS
    \/ CtrlC
    \/ \E c \in cmds, ok \in BOOLEAN : ConnectToDatabase(c, ok)
    \/ \E msg \in msgs : DbConnected(msg)
    \/ \E c \in cmds, dbOutcome \in DbOutcomes : ExecuteQuery(c, dbOutcome)
    \/ \E msg \in msgs : QueryExecuted(msg)

SpecQuery == InitQuery /\ [][NextQuery]_vars

\* ------------------------------------------------------------------------
\* The conversation as it grows turn by turn, and the context text made of
\* it.

\* The longest conversation.
MaxTurns == 4

\* The turns a conversation is made of: answered with rows, answered
\* without rows, and failed.
Turns == {
    ConversationEntry(<<"h","o","w"," ","m","a","n","y"," ","u","s","e","r","s">>, <<"S","E","L","E","C","T"," ","C","O","U","N","T","(","*",")">>,
                      QueryResults(3, <<"S","E","L","E","C","T"," ","C","O","U","N","T","(","*",")">>, <<"h","o","w"," ","m","a","n","y"," ","u","s","e","r","s">>), <<>>),
    ConversationEntry(<<"s","h","o","w"," ","t">>, <<"S","E","L","E","C","T"," ","1">>,
                      QueryResults(0, <<"S","E","L","E","C","T"," ","1">>, <<"s","h","o","w"," ","t">>), <<>>),
    ConversationEntry(<<"l","i","s","t">>, <<"S","E","L","E","C","T"," ","2">>,
                      QueryResults(12, <<"S","E","L","E","C","T"," ","2">>, <<"l","i","s","t">>), <<>>),
    ConversationEntry(<<"z","e","b","r","a">>, <<>>, NilResults, <<"n","o"," ","d","a","t","a","b","a","s","e"," ","c","o","n","n","e","c","t","i","o","n">>) }

\* queryExecutedMsg, as far as the conversation goes: one more turn.
AppendTurn(entry) ==
    /\ pc = "idle"
    /\ Len(history) < MaxTurns
    /\ history' = Append(history, entry)
    /\ UNCHANGED <<loading, results, error, editor, db>>
    /\ UNCHANGED <<engineVars, configVars, appVars, runtimeVars>>

\* m.getConversationContext()
GetConversationContextCall ==
    /\ pc = "idle"
    /\ pc' = "done"
    /\ call' = [op |-> "getConversationContext", out |-> getConversationContext(history)]
    /\ UNCHANGED <<schema, useNN, nnTrainer>>
    /\ UNCHANGED tuiVars

InitContext ==
    /\ NoTui
    /\ schema = ScreenSchema /\ useNN = TRUE /\ nnTrainer = "nil"
    /\ pc = "idle" /\ call = NoCall

NextContext ==
    \/ \E entry \in Turns : AppendTurn(entry)
    \/ GetConversationContextCall
    \/ Return

SpecContext == InitContext /\ [][NextContext]_vars

\* ------------------------------------------------------------------------
\* The saved query history of the configuration under AddQueryToHistory.

\* The most entries added.
MaxAdds == 4

\* The values of Settings.MaxHistorySize.
HistorySizes == 0..3

HistoryEntries == {
    QueryHistoryEntry(<<"Q","u","e","r","y"," ","A">>, <<>>, 0),
    QueryHistoryEntry(<<"Q","u","e","r","y"," ","B">>, <<>>, 0),
    QueryHistoryEntry(<<"Q","u","e","r","y"," ","C">>, <<>>, 0) }

\* cfg.AddQueryToHistory(entry)
AddQueryToHistoryCall(entry) ==
    /\ Len(added) < MaxAdds
    /\ QueryHistory' = AddQueryToHistory(QueryHistory, MaxHistorySize, entry)
    /\ added' = Append(added, entry)
    /\ UNCHANGED <<MaxHistorySize, CachedSchemas, cmds, msgs, nextId, cancelled>>
    /\ UNCHANGED <<engineVars, queryVars, appVars>>

\* DefaultConfig with Settings.MaxHistorySize set.
InitHistory ==
    /\ schema = NilSchema /\ useNN = TRUE /\ nnTrainer = "nil"
    /\ pc = "idle" /\ call = NoCall
    /\ QueryHistory = <<>> /\ MaxHistorySize \in HistorySizes /\ CachedSchemas = <<>>
    /\ loading = FALSE /\ history = <<>> /\ results = NilResults /\ error = <<>>
    /\ editor = <<>> /\ db = "nil"
    /\ screen = "ScreenMenu" /\ pendingScreen = "ScreenMenu"
    /\ activeService = "nil" /\ activeSchema = [nil |-> TRUE, Tables |-> <<>>, HasPostGIS |-> FALSE]
    /\ queryModel = [nil |-> TRUE] /\ harvest = [nil |-> TRUE]
    /\ cmds = {} /\ msgs = {} /\ nextId = 0 /\ cancelled = {} /\ added = <<>>

NextHistory == \E entry \in HistoryEntries : AddQueryToHistoryCall(entry)

SpecHistory == InitHistory /\ [][NextHistory]_vars

\* ------------------------------------------------------------------------
\* The application model (AppModel.Update) with the harvest screen
\* (internal/tui/harvest.go).  Of the AppModel the fields that decide what
\* is shown and queried are modelled; sizes, the spinner and the status-bar
\* globals are left out.

\* The most harvests started.
MaxHarvests == 2

Services == {"a", "b"}

\* What harvesting a service yields when it succeeds.
Harvested(service) ==
    IF service = "a" THEN SchemaCache(<<Users>>, FALSE) ELSE SchemaCache(<<Products>>, TRUE)

NilQueryModel == [nil |-> TRUE]
NewQueryModel(service, s) == [nil |-> FALSE, service |-> service, schema |-> s]

NilHarvest == [nil |-> TRUE]
NewHarvestModel(service, id) == [nil |-> FALSE, service |-> service, id |-> id]

\* Config.IsSchemaCacheValid: the service has a cached schema (and, where a
\* lifetime applies, fresh says it has not run out).
IsSchemaCacheValid(serviceName, fresh) == ~CachedSchemas[serviceName].nil /\ fresh

\* menuActionMsg
MenuAction(action) ==
    /\ screen = "ScreenMenu"
    /\ CASE action = "MenuQuery" ->
              IF activeService # "nil" /\ ~activeSchema.nil
              THEN /\ screen' = "ScreenQuery"
                   /\ queryModel' = IF queryModel.nil
                                    THEN NewQueryModel(activeService, activeSchema)
                                    ELSE queryModel
                   /\ UNCHANGED pendingScreen
              \* No service connected, go to database selection
              ELSE /\ screen' = "ScreenDatabase"
                   /\ UNCHANGED <<queryModel, pendingScreen>>
         [] action = "MenuDatabases" ->
              /\ screen' = "ScreenDatabase"
              /\ UNCHANGED <<queryModel, pendingScreen>>
         [] action = "MenuHistory" ->
              IF activeService # "nil"
              THEN /\ screen' = "ScreenHistory"
                   /\ UNCHANGED <<queryModel, pendingScreen>>
              \* No active service - go to database selection first, then history
              ELSE /\ pendingScreen' = "ScreenHistory"
                   /\ screen' = "ScreenDatabase"
                   /\ UNCHANGED queryModel
    /\ UNCHANGED <<activeService, activeSchema, harvest>>
    /\ UNCHANGED <<engineVars, configVars, queryVars, runtimeVars>>

\* goToMenuMsg
GoToMenu ==
    /\ screen \in {"ScreenQuery", "ScreenDatabase", "ScreenHistory"}
    /\ screen' = "ScreenMenu"
    /\ UNCHANGED <<pendingScreen, activeService, activeSchema, queryModel, harvest>>
    /\ UNCHANGED <<engineVars, configVars, queryVars, runtimeVars>>

\* serviceSelectedMsg: the cached schema is used, or a harvest is started.
ServiceSelected(service, fresh) ==
    /\ screen = "ScreenDatabase"
    /\ activeService' = service
    /\ IF IsSchemaCacheValid(service, fresh)
       THEN /\ activeSchema' = CachedSchemas[service]
            /\ IF pendingScreen = "ScreenHistory"
               THEN /\ pendingScreen' = "ScreenMenu"
                    /\ screen' = "ScreenHistory"
                    /\ UNCHANGED queryModel
               ELSE /\ screen' = "ScreenQuery"
                    /\ queryModel' = NewQueryModel(service, CachedSchemas[service])
                    /\ UNCHANGED pendingScreen
            /\ UNCHANGED <<harvest, cmds, nextId>>
       \* Need to harvest schema - show harvest screen with progress bar
       ELSE /\ nextId < MaxHarvests
            /\ screen' = "ScreenHarvest"
            /\ harvest' = NewHarvestModel(service, nextId + 1)
            /\ cmds' = cmds \cup {[type |-> "startHarvest", id |-> nextId + 1,
                                   service |-> service]}
            /\ nextId' = nextId + 1
            /\ UNCHANGED <<activeSchema, queryModel, pendingScreen>>
    /\ UNCHANGED <<engineVars, configVars, queryVars, msgs, cancelled, added>>

\* The command of HarvestModel.startHarvest runs to its end: the schema of
\* the service, or an error.
StartHarvest(c, ok) ==
    /\ c \in cmds /\ c.type = "startHarvest"
    /\ cmds' = cmds \ {c}
    /\ msgs' = msgs \cup {[type |-> "schemaLoadedMsg", id |-> c.id,
                           schema |-> IF ok THEN Harvested(c.service) ELSE NilSchema,
                           err |-> IF ok THEN <<>> ELSE <<"c","o","n","n","e","c","t","i","o","n"," ","r","e","f","u","s","e","d">>]}
    /\ UNCHANGED <<engineVars, configVars, queryVars, appVars, nextId, cancelled, added>>

\* ctrl+c or esc on the harvest screen: HarvestModel.Update answers with a
\* command that yields harvestCancelledMsg.
HarvestKey ==
    /\ screen = "ScreenHarvest"
    /\ ~harvest.nil
    /\ msgs' = msgs \cup {[type |-> "harvestCancelledMsg", id |-> harvest.id]}
    /\ UNCHANGED <<engineVars, configVars, queryVars, appVars, cmds, nextId, cancelled, added>>

\* harvestCancelledMsg: back to database selection, no active service.
HarvestCancelled(msg) ==
    /\ screen # "Crashed"
    /\ msg \in msgs /\ msg.type = "harvestCancelledMsg"
    /\ msgs' = msgs \ {msg}
    /\ activeService' = "nil"
    /\ screen' = "ScreenDatabase"
    /\ cancelled' = cancelled \cup {msg.id}
    /\ UNCHANGED <<pendingScreen, activeSchema, queryModel, harvest>>
    /\ UNCHANGED <<engineVars, configVars, queryVars, cmds, nextId, added>>

\* schemaLoadedMsg
SchemaLoaded(msg) ==
    /\ screen # "Crashed"
    /\ msg \in msgs /\ msg.type = "schemaLoadedMsg"
    /\ msgs' = msgs \ {msg}
    /\ IF msg.err = <<>> /\ ~msg.schema.nil
       THEN /\ activeSchema' = msg.schema
            \* Cache the schema
            /\ CachedSchemas' = IF activeService # "nil"
                                THEN [CachedSchemas EXCEPT ![activeService] = msg.schema]
                                ELSE CachedSchemas
            /\ IF pendingScreen = "ScreenHistory"
               THEN \* NewHistoryModel(m.activeService.Name) dereferences the
                    \* active service
                    /\ pendingScreen' = "ScreenMenu"
                    /\ screen' = IF activeService = "nil" THEN "Crashed" ELSE "ScreenHistory"
                    /\ UNCHANGED queryModel
               \* Go to query screen
               ELSE /\ screen' = "ScreenQuery"
                    /\ queryModel' = NewQueryModel(activeService, msg.schema)
                    /\ UNCHANGED pendingScreen
       \* Handle error - go back to database selection
       ELSE /\ screen' = "ScreenDatabase"
            /\ UNCHANGED <<activeSchema, CachedSchemas, queryModel, pendingScreen>>
    /\ UNCHANGED <<activeService, harvest, QueryHistory, MaxHistorySize>>
    /\ UNCHANGED <<engineVars, queryVars, cmds, nextId, cancelled, added>>

\* NewAppModel: the menu, nothing connected; the configuration holds the
\* schemas cached by earlier runs.
InitApp ==
    /\ schema = NilSchema /\ useNN = TRUE /\ nnTrainer = "nil"
    /\ pc = "idle" /\ call = NoCall
    /\ QueryHistory = <<>> /\ MaxHistorySize = 100
    /\ CachedSchemas \in {[s \in Services |-> NilSchema],
                          [s \in Services |-> IF s = "b" THEN Harvested("b") ELSE NilSchema]}
    /\ loading = FALSE /\ history = <<>> /\ results = NilResults /\ error = <<>>
    /\ editor = <<>> /\ db = "nil"
    /\ screen = "ScreenMenu" /\ pendingScreen = "ScreenMenu"
    /\ activeService = "nil" /\ activeSchema = NilSchema
    /\ queryModel = NilQueryModel /\ harvest = NilHarvest
    /\ cmds = {} /\ msgs = {} /\ nextId = 0 /\ cancelled = {} /\ added = <<>>

NextApp ==
    \/ \E action \in {"MenuQuery", "MenuDatabases", "MenuHistory"} : MenuAction(action)
    \/ GoToMenu
    \/ \E service \in Services, fresh \in BOOLEAN : ServiceSelected(service, fresh)
    \/ \E c \in cmds, ok \in BOOLEAN : StartHarvest(c, ok)
    \/ HarvestKey
    \/ \E msg \in msgs : HarvestCancelled(msg)
    \/ \E msg \in msgs : SchemaLoaded(msg)

SpecApp == InitApp /\ [][NextApp]_vars

\* ------------------------------------------------------------------------
\* Two calls of GenerateSQL by one caller, one after the other on the same
\* engine, with the same query and different context texts.

PairQueries == {
    <<"h","o","w"," ","m","a","n","y"," ","u","s","e","r","s">>,
    <<"s","h","o","w"," ","1","0"," ","o","r","d","e","r","s">>,
    <<"d","e","s","c","r","i","b","e"," ","u","s","e","r","s">>,
    <<"p","u","r","c","h","a","s","e","s">>,
    <<"t","2">>,
    <<" "," ","H","i","!"," "," ">> }

\* The context of a conversation not yet begun, and after one turn.
PairContexts == {
    <<>>,
    getConversationContext(<<ConversationEntry(<<"h","o","w"," ","m","a","n","y"," ","u","s","e","r","s">>, <<"S","E","L","E","C","T"," ","C","O","U","N","T","(","*",")">>,
        QueryResults(3, <<"S","E","L","E","C","T"," ","C","O","U","N","T","(","*",")">>, <<"h","o","w"," ","m","a","n","y"," ","u","s","e","r","s">>), <<>>)>>) }

PairSchemas == {NilSchema, SchemaCache(<<Users>>, FALSE),
                SchemaCache(<<Users, OrderItems>>, FALSE)}

\* engine.GenerateSQL(query, context1) and then engine.GenerateSQL(query,
\* context2); the predictor, asked with the same query, answers the same.
CallGenerateSQLTwice(query, context1, context2, prediction) ==
    /\ pc = "idle"
    /\ pc' = "done"
    /\ call' = With(<<GenerateSQL(query, context1, schema, useNN, nnTrainer, prediction),
                      GenerateSQL(query, context2, schema, useNN, nnTrainer, prediction)>>,
                    LAMBDA out :
                        [op |-> "GenerateSQL twice", query |-> query,
                         contexts |-> <<context1, context2>>, prediction |-> prediction,
                         sql |-> <<out[1].sql, out[2].sql>>,
                         err |-> <<out[1].err, out[2].err>>,
                         by |-> <<out[1].by, out[2].by>>])
    /\ UNCHANGED <<schema, useNN, nnTrainer>>
    /\ UNCHANGED tuiVars

InitPair ==
    /\ NoTui
    /\ schema \in PairSchemas
    /\ useNN = TRUE
    /\ nnTrainer \in {"nil", "untrained", "trained"}
    /\ pc = "idle"
    /\ call = NoCall

NextPair ==
    \/ \E q \in PairQueries, c1, c2 \in PairContexts, p \in PredictedAnswers :
          CallGenerateSQLTwice(q, c1, c2, p)
    \/ Return
    \/ \E s \in PairSchemas : SetSchema(s)
    \/ \E use \in BOOLEAN : SetUseNN(use)
    \/ \E ok \in BOOLEAN : TrainFromHistory(ok)

SpecPair == InitPair /\ [][NextPair]_vars
\* ------------------------------------------------------------------------
\* Properties of the application model (checked under SpecApp).

\* C30: the schemaLoadedMsg of a harvest that the user cancelled, whenever
\* it is delivered, leaves the current screen, the active schema, the query
\* model and the schema cache as they are.
CE_C30_CancelledHarvestNeverApplied ==
    [][\A msg \in msgs \ msgs' :
          msg.type = "schemaLoadedMsg" /\ msg.id \in cancelled =>
              UNCHANGED <<screen, activeSchema, queryModel, CachedSchemas>>]_vars
\* ------------------------------------------------------------------------
\* Properties of GenerateSQL (checked under Spec).

\* A GenerateSQL call has returned and the caller holds its outcome.
Returned == pc = "done" /\ call.op = "GenerateSQL"

\* ... on a loaded schema, and it was not the predictor that answered.
Ruled == Returned /\ ~schema.nil /\ call.by # "nn"

\* The query as the matchers see it.
Asked == Normalize(call.query)

\* C1: GenerateSQL on an engine whose schema is nil returns an error and no
\* SQL, for every query and context, before the learned predictor is
\* consulted and before any matcher runs.
C1_NilSchemaFailsFirst ==
    Returned /\ schema.nil =>
      /\ call.err # <<>>
      /\ call.sql = <<>>
      /\ ~call.nnConsulted
      /\ call.tried = <<>>

\* The schema is nil while the predictor is enabled, trained and ready with
\* an answer that would have been accepted, and a context was passed.
W_C1_NilSchemaPredictorReady ==
    /\ Returned
    /\ schema.nil
    /\ useNN /\ nnTrainer = "trained" /\ Accepted(call.prediction)
    /\ call.context # <<>>
    /\ call.err = ErrNoSchema

\* The order of the matchers as the claim gives it.
ClaimedOrder(s) ==
    IF s.HasPostGIS
    THEN <<"count", "show", "table", "spatial", "select", "search", "fallback">>
    ELSE <<"count", "show", "table", "select", "search", "fallback">>

\* C2: with the learned predictor not used, GenerateSQL tries the matchers
\* in the order count, show/list, table-info, spatial (only when the schema
\* reports PostGIS), generic select, keyword search, literal table name; the
\* SQL returned is the output of the first matcher in that order whose
\* output is not empty, and no later matcher is run.
C2_FixedMatcherOrder ==
    Ruled =>
      LET order == ClaimedOrder(schema)
          n == Len(call.tried)
      IN  /\ n <= Len(order)
          /\ call.tried = SubSeq(order, 1, n)
          /\ Len(call.outs) = n
          /\ \A i \in 1..(n - 1) : call.outs[i] = <<>>
          /\ IF call.sql # <<>>
             THEN /\ n >= 1
                  /\ call.outs[n] = call.sql
                  /\ call.by = order[n]
                  /\ call.err = <<>>
             ELSE /\ n = Len(order)
                  /\ call.outs[n] = <<>>
                  /\ call.by = "none"
                  /\ call.err # <<>>

\* The count matcher answered a query for which the literal table-name
\* fallback, last in the order, has a different answer, never asked for.
W_C2_EarlierMatcherWins ==
    /\ Ruled
    /\ call.by = "count"
    /\ call.tried = <<"count">>
    /\ LiteralFallback(Asked, schema) # <<>>
    /\ LiteralFallback(Asked, schema) # call.sql

\* C4 as stated: when no matcher produces output, the error carries the
\* query text exactly as the caller passed it.
CE_C4_ErrorCarriesOriginalQuery ==
    Ruled /\ call.by = "none" => Contains(call.err, call.query)

\* The table the count patterns resolve: that of the first pattern, in
\* order, that matches and whose noun findTable resolves.
CountTable == FirstResolved(countPatterns, Asked, schema)

EachOrAllTables == Contains(Asked, <<"e","a","c","h"," ","t","a","b","l","e">>) \/ Contains(Asked, <<"a","l","l"," ","t","a","b","l","e","s">>)

ClaimedRowCounts(s) ==
    [i \in 1..Len(s.Tables) |->
        <<"S","E","L","E","C","T"," ","'">> \o s.Tables[i].Schema \o <<".">> \o s.Tables[i].Name
        \o <<"'"," ","a","s"," ","t","a","b","l","e","_","n","a","m","e",","," ","C","O","U","N","T","(",
        "*",")"," ","a","s"," ","r","o","w","_","c","o","u","n","t"," ","F","R","O","M"," ","\"">> \o s.Tables[i].Schema
        \o <<"\"",".","\"">> \o s.Tables[i].Name \o <<"\"">>]

\* C6: for a schema with at least one table, a query containing "each
\* table" or "all tables" yields one row-count SELECT per table, each table
\* once and in schema order, joined by UNION ALL and ordered by row_count
\* DESC, whatever noun the count patterns capture.
C6_EachAllTables ==
    Ruled /\ Len(schema.Tables) >= 1 /\ EachOrAllTables =>
      /\ call.by = "count"
      /\ call.sql = Join(ClaimedRowCounts(schema), <<" ","U","N","I","O","N"," ","A","L","L"," ">>)
                    \o <<" ","O","R","D","E","R"," ","B","Y"," ","r","o","w","_","c","o","u","n","t"," ","D","E","S",
        "C">>

\* "all tables" in a query whose noun a count pattern resolves to a table
\* of a schema of two tables.
W_C6_AllTablesOverNoun ==
    /\ Ruled
    /\ Len(schema.Tables) = 2
    /\ Contains(Asked, <<"a","l","l"," ","t","a","b","l","e","s">>)
    /\ CountTable # <<>>
    /\ call.by = "count"
    /\ Contains(call.sql, <<" ","U","N","I","O","N"," ","A","L","L"," ">>)

\* Whether show pattern i captures a table word that findTable resolves.
ShowHit(i) ==
    LET m == FindStringSubmatch(showPatterns[i], Asked)
    IN  /\ Len(m) > 1
        /\ m[3] # <<>>
        /\ ~IsNumber(m[3])
        /\ findTable(m[3], schema) # <<>>

\* SELECT * FROM "S"."T" LIMIT N for the table and the number show pattern
\* i captures, N being 50 without a number.
ShowExpected(i) ==
    LET m == FindStringSubmatch(showPatterns[i], Asked)
        T == findTable(m[3], schema)[1]
    IN  <<"S","E","L","E","C","T"," ","*"," ","F","R","O","M"," ","\"">> \o T.Schema \o <<"\"",".","\"">> \o T.Name \o <<"\""," ","L","I","M","I","T"," ">>
        \o (IF m[2] # <<>> THEN m[2] ELSE <<"5","0">>)

CE_C10_LargestTables ==
    Ruled /\ Len(schema.Tables) >= 1 /\ Len(call.tried) >= 3
          /\ Contains(Asked, <<"l","a","r","g","e","s","t">>) /\ Contains(Asked, <<"t","a","b","l","e">>) =>
      call.sql = Join(ClaimedRowCounts(schema), <<" ","U","N","I","O","N"," ","A","L","L"," ">>)
                 \o <<" ","O","R","D","E","R"," ","B","Y"," ","r","o","w","_","c","o","u","n","t"," ","D","E","S",
        "C"," ","L","I","M","I","T"," ","1","0">>

\* ------------------------------------------------------------------------
\* Properties of findTable (checked under SpecFind).

FindDone == pc = "done" /\ call.op = "findTable"

\* x without one trailing "s".
StripS(x) == IF Len(x) > 0 /\ x[Len(x)] = "s" THEN SubSeq(x, 1, Len(x) - 1) ELSE x

\* C8: findTable(name) returns, case-insensitively, the first table in
\* schema order whose name equals name; only if no table equals it, the
\* first table whose name contains name; only if none contains it, the
\* first table that equals name with a trailing "s" stripped or whose own
\* name with a trailing "s" stripped equals it; and no table otherwise.
C8_FindTableOrder ==
    FindDone =>
      LET n == ToLower(call.name)
          T == schema.Tables
          Equal(i) == ToLower(T[i].Name) = n
          Within(i) == \E p \in 1..(Len(T[i].Name) - Len(n) + 1) :
                          SubSeq(ToLower(T[i].Name), p, p + Len(n) - 1) = n
          Plural(i) == \/ ToLower(T[i].Name) = StripS(n)
                       \/ StripS(ToLower(T[i].Name)) = StripS(n)
          IsFirst(i, P(_)) == P(i) /\ \A j \in 1..(i - 1) : ~P(j)
      IN  IF \E i \in DOMAIN T : Equal(i)
          THEN \E i \in DOMAIN T : IsFirst(i, Equal) /\ call.found = <<T[i]>>
          ELSE IF \E i \in DOMAIN T : Within(i)
          THEN \E i \in DOMAIN T : IsFirst(i, Within) /\ call.found = <<T[i]>>
          ELSE IF \E i \in DOMAIN T : Plural(i)
          THEN \E i \in DOMAIN T : IsFirst(i, Plural) /\ call.found = <<T[i]>>
          ELSE call.found = <<>>

\* An exact match was returned although an earlier table contains the name.
W_C8_ExactAfterPartial ==
    /\ FindDone
    /\ Len(schema.Tables) >= 2
    /\ ToLower(schema.Tables[1].Name) # ToLower(call.name)
    /\ Contains(ToLower(schema.Tables[1].Name), ToLower(call.name))
    /\ ToLower(schema.Tables[2].Name) = ToLower(call.name)
    /\ call.found = <<schema.Tables[2]>>

\* The words N of which the name looked up is the singular N or the plural N+"s".
NounsOf(name) ==
    {ToLower(name)} \cup
    (IF HasSuffix(ToLower(name), <<"s">>) THEN {StripS(ToLower(name))} ELSE {})

MatchesDone == pc = "done" /\ call.op = "findSemanticMatches"

\* C16: no entry returned by findSemanticMatches has a score below 0.35,
\* whether it was matched on a table name, a comment word or a column name.
CE_C16_NoEntryBelowThreshold ==
    MatchesDone =>
      \A i \in 1..Len(call.matches) : FracLeq(Frac(35, 100), call.matches[i].Score)

\* The greatest of a non-empty finite set of fractions.
FracMax(S) == CHOOSE x \in S : \A y \in S : FracLeq(y, x)

\* The weighted scores of the candidates of a table: for every keyword the
\* score against the table name, 0.90 times the score against each word of
\* the comment and 0.85 times the score against each column name, counting
\* the candidates whose raw score is at least 0.35.
ClaimedWeighted(keywords, table) ==
    LET raw(k, entity) == calculateMatchScore(keywords[k], entity).Score
        counted(x) == FracLeq(Frac(35, 100), x)
        words == Fields(ToLower(table.Comment))
    IN  UNION {
          {raw(k, table.Name) : k \in {h \in 1..Len(keywords) : counted(raw(h, table.Name))}}
          \cup {FracMul(Frac(90, 100), raw(c[1], words[c[2]])) :
                  c \in {d \in (1..Len(keywords)) \X (1..Len(words)) :
                            counted(raw(d[1], words[d[2]]))}}
          \cup {FracMul(Frac(85, 100), raw(c[1], table.Columns[c[2]].Name)) :
                  c \in {d \in (1..Len(keywords)) \X (1..Len(table.Columns)) :
                            counted(raw(d[1], table.Columns[d[2]].Name))}} }

\* C17: findSemanticMatches returns at most one entry per table, and the
\* score of the entry is the maximum, over all keywords, of the table-name
\* score, 0.90 times each comment-word score and 0.85 times each
\* column-name score, over the candidates whose raw score is at least 0.35.
CE_C17_OneBestEntryPerTable ==
    MatchesDone =>
      /\ \A i, j \in 1..Len(call.matches) :
            call.matches[i].Table = call.matches[j].Table => i = j
      /\ \A i \in 1..Len(call.matches) :
            With(ClaimedWeighted(call.keywords, call.matches[i].Table), LAMBDA S :
                 S # {} /\ call.matches[i].Score = FracMax(S))

\* Where a table stands in the schema.
SchemaIndex(table) == Min({i \in 1..Len(schema.Tables) : schema.Tables[i] = table})

\* C18: the list returned by findSemanticMatches is sorted by score in
\* descending order, and two tables with equal scores appear in their
\* schema order.
CE_C18_SortedStable ==
    MatchesDone =>
      \A i, j \in 1..Len(call.matches) :
         i < j =>
           /\ FracLeq(call.matches[j].Score, call.matches[i].Score)
           /\ call.matches[i].Score = call.matches[j].Score =>
                SchemaIndex(call.matches[i].Table) < SchemaIndex(call.matches[j].Table)
\* ------------------------------------------------------------------------
\* Properties of the context argument (checked under SpecPair).

PairDone == pc = "done" /\ call.op = "GenerateSQL twice"

PredictorReady == Returned /\ useNN /\ nnTrainer = "trained"

\* The sanity check as the claim words it.
ClaimedSane(text) ==
    LET sql == TrimSpace(ToLower(text))
        starts(word) == Len(sql) >= Len(word) /\ SubSeq(sql, 1, Len(word)) = word
        count(c) == Cardinality({i \in 1..Len(sql) : sql[i] = c})
    IN  /\ sql # <<>>
        /\ \E word \in {<<"s","e","l","e","c","t">>, <<"i","n","s","e","r","t">>, <<"u","p","d","a","t","e">>, <<"d","e","l","e","t","e">>, <<"w","i","t","h">>,
                        <<"c","r","e","a","t","e">>, <<"a","l","t","e","r">>, <<"d","r","o","p">>} : starts(word)
        /\ starts(<<"s","e","l","e","c","t">>) => Contains(sql, <<"f","r","o","m">>)
        /\ count("(") = count(")")

ClaimedAccepted(prediction) ==
    /\ ~prediction.err
    /\ FracLess(Frac(3, 5), prediction.confidence)
    /\ ClaimedSane(prediction.sql)

\* The call returned the prediction, untouched and without an error.
ReturnedPrediction ==
    /\ call.by = "nn"
    /\ call.sql = call.prediction.sql
    /\ call.err = <<>>

\* The call returned what the rules give for its query on the schema.
ReturnedRules ==
    With(Rules(call.query, schema, TRUE), LAMBDA rules :
         /\ call.by = rules.by /\ call.by # "nn"
         /\ call.sql = rules.sql
         /\ call.err = rules.err)

\* C15 as stated: with the predictor enabled and ready, GenerateSQL returns
\* the prediction if and only if its confidence is above 0.6 and its text
\* passes the sanity check, whatever the schema; otherwise it returns what
\* the rules give.
CE_C15_PredictorGateAnySchema ==
    PredictorReady =>
      /\ ReturnedPrediction <=> ClaimedAccepted(call.prediction)
      /\ ~ClaimedAccepted(call.prediction) /\ ~schema.nil => ReturnedRules

\* C15: on an engine whose schema is not nil, with the predictor enabled
\* and ready, GenerateSQL returns the prediction if and only if its
\* confidence is above 0.6 and its text passes the sanity check; in every
\* other case the prediction is dropped without an error of its own and the
\* SQL and the error returned are those the rules give for the same query
\* and schema.
C15_PredictorGate ==
    PredictorReady /\ ~schema.nil =>
      IF ClaimedAccepted(call.prediction) THEN ReturnedPrediction
      ELSE ~ReturnedPrediction /\ ReturnedRules

\* A confident prediction that fails the sanity check was dropped and the
\* rules answered the query.
W_C15_InsaneDroppedRulesAnswer ==
    /\ PredictorReady /\ ~schema.nil
    /\ call.prediction = Prediction(<<"S","E","L","E","C","T"," ","1">>, Frac(7, 10))
    /\ call.by = "count"
    /\ call.sql # <<>>

\* Whether a query has a word of more than 3 characters, punctuation at
\* its ends aside, that is not a stop word.
HasLongWord(text) ==
    \E k \in 1..Len(Fields(text)) :
        With(Trim(Fields(text)[k], {".", ",", "?", "!"}), LAMBDA word :
             Len(word) > 3 /\ ToLower(word) \notin excludeWords)

\* C28: on a schema that is not nil, when the predictor does not answer,
\* GenerateSQL fails only for a query without keywords; a query with a
\* word of more than 3 characters that is not a stop word gets SQL and no
\* error, and the table-name fallback is not reached for it.
C28_FailsOnlyWithoutKeywords ==
    Ruled =>
      /\ call.err # <<>> => ExtractKeywords(Asked) = <<>>
      /\ HasLongWord(call.query) =>
           /\ call.sql # <<>> /\ call.err = <<>>
           /\ \A k \in 1..Len(call.tried) : call.tried[k] # "fallback"

\* A one-word query that only the keyword search answers.
W_C28_KeywordSearchAnswers ==
    /\ Ruled
    /\ call.query = <<"p","u","r","c","h","a","s","e","s">>
    /\ HasLongWord(call.query)
    /\ call.by = "search"
    /\ call.sql # <<>>

CE_C27_CancelledNeverApplied ==
    [][\A msg \in msgs \ msgs' :
          msg.type = "queryExecutedMsg" /\ msg.id \in cancelled =>
              UNCHANGED <<results, history, QueryHistory, editor>>]_vars

\* ------------------------------------------------------------------------
\* Properties of the conversation context (checked under SpecContext).

ContextDone == pc = "done" /\ call.op = "getConversationContext"

\* The header line, then the turns from the given one on, oldest first.
RECURSIVE ClaimedTurns(_, _)
ClaimedTurns(h, from) ==
    IF from > Len(h) THEN <<>> ELSE TurnText(h[from]) \o ClaimedTurns(h, from + 1)

\* C24: the conversation context is empty for an empty conversation and is
\* otherwise a header line followed by exactly the last min(3, n) of the n
\* turns, oldest first.
C24_LastThreeTurns ==
    ContextDone =>
      With(Len(history), LAMBDA n :
           IF n = 0 THEN call.out = <<>>
           ELSE call.out = <<"P","r","e","v","i","o","u","s"," ","c","o","n","v","e","r","s","a","t","i","o","n",":",
        "\n">>
                           \o ClaimedTurns(history, n - Min({3, n}) + 1))

\* A conversation of four turns whose first turn is not in the context.
W_C24_FourthTurnDropsFirst ==
    /\ ContextDone
    /\ Len(history) = 4
    /\ history[1].Query = <<"z","e","b","r","a">>
    /\ \A k \in 2..4 : history[k].Query # <<"z","e","b","r","a">>
    /\ ~Contains(call.out, <<"z","e","b","r","a">>)
    /\ Contains(call.out, <<"U","s","e","r",":"," ">> \o history[2].Query)

\* ------------------------------------------------------------------------
\* Properties of the saved history (checked under SpecHistory).

\* C26: the saved history has at most MaxHistorySize entries, and they are
\* the most recently added ones, the most recent first (all of them when
\* fewer were added).
C26_HistoryTrimmed ==
    /\ Len(QueryHistory) <= MaxHistorySize
    /\ Len(QueryHistory) = Min({MaxHistorySize, Len(added)})
    /\ \A k \in 1..Len(QueryHistory) : QueryHistory[k] = added[Len(added) - k + 1]

\* Four entries were added to a history of two.
W_C26_FourAddedTwoKept ==
    /\ MaxHistorySize = 2
    /\ Len(added) = 4
    /\ added[1] # added[3] /\ added[2] # added[4] /\ added[3] # added[4]
    /\ QueryHistory = <<added[4], added[3]>>
\* ------------------------------------------------------------------------
\* Properties of SetSchema during a call (checked under SpecRace).

\* C3 as stated: a GenerateSQL call during which SetSchema replaces the
\* schema does not crash, and its outcome is that of running the same query
\* sequentially against one of the schemas the engine held during the call.
CE_C3_SchemaSwapAtomic ==
    pc = "done" /\ call.op = "GenerateSQL" =>
      /\ ~call.panic
      /\ \E i \in 1..Len(call.seen) :
             With(GenerateSQL(call.query, call.context, call.seen[i], useNN, nnTrainer,
                              NotAsked),
                  LAMBDA alone : alone.sql = call.sql /\ alone.err = call.err)

\* ------------------------------------------------------------------------
\* Properties of calculateMatchScore (checked under SpecScore).

ScoreDone == pc = "done" /\ call.op = "calculateMatchScore"

\* The scores of the strategies whose condition holds for keyword k and
\* entity e (both in lower case), words being the words of the entity:
\* each strategy with the condition and the formula of the strategy table.
\* An empty string is taken to be neither contained in a string nor a
\* prefix of one, and the partial stem match to be against the words.
ClaimedStrategies(k, e, words) ==
    LET overlap == IF Len(k) < Len(e) THEN Len(k) ELSE Len(e)
        longer == IF Len(k) < Len(e) THEN Len(e) ELSE Len(k)
        wordStems == {stemWord(words[i]) : i \in 1..Len(words)}
        stems == {stemWord(e)} \cup wordStems
        isPrefix(a, b) == Len(a) <= Len(b) /\ SubSeq(b, 1, Len(a)) = a
        partial(stem) ==
            LET shared == IF Len(stem) < Len(stemWord(k)) THEN Len(stem) ELSE Len(stemWord(k))
            IN  IF (isPrefix(stem, stemWord(k)) \/ isPrefix(stemWord(k), stem)) /\ shared >= 3
                THEN {FracMul(Frac(70, 100), Frac(shared, Len(stemWord(k))))}
                ELSE {}
        similarity == ngramSimilarity(k, e, 3)
        distance == levenshteinDistance(k, e)
    IN  \* exact
        (IF k = e THEN {One} ELSE {})
        \* exact word
        \cup (IF \E i \in 1..Len(words) : words[i] = k THEN {Frac(95, 100)} ELSE {})
        \* contains
        \cup (IF k # <<>> /\ Contains(e, k)
              THEN {FracAdd(FracMul(Frac(85, 100), Frac(Len(k), Len(e))), Frac(10, 100))}
              ELSE {})
        \* contains-reverse
        \cup (IF Len(e) >= 3 /\ Contains(k, e)
              THEN {FracAdd(FracMul(Frac(80, 100), Frac(Len(e), Len(k))), Frac(10, 100))}
              ELSE {})
        \* prefix
        \cup (IF overlap > 0 /\ (isPrefix(k, e) \/ isPrefix(e, k))
              THEN {FracAdd(FracMul(Frac(75, 100), Frac(overlap, longer)), Frac(15, 100))}
              ELSE {})
        \* stem
        \cup (IF Len(stemWord(k)) >= 3 /\ stemWord(k) \in stems THEN {Frac(85, 100)} ELSE {})
        \* stem-partial
        \cup UNION {partial(stem) : stem \in wordStems}
        \* trigram Jaccard
        \cup (IF FracLess(Frac(30, 100), similarity)
              THEN {FracMul(similarity, Frac(80, 100))} ELSE {})
        \* Levenshtein
        \cup (IF longer - overlap <= 3 /\ Len(k) >= 4 /\ distance <= 2
              THEN {FracMul(FracSub(One, Frac(distance, longer)), Frac(70, 100))}
              ELSE {})

\* C19: calculateMatchScore returns the maximum of the scores of the
\* strategies whose condition holds (exact, exact word, contains,
\* contains-reverse, prefix, stem, stem-partial, trigram Jaccard,
\* Levenshtein), each scored by the formula of the strategy table, and 0
\* when none applies.
CE_C19_MaximumOfStrategies ==
    ScoreDone =>
      call.score.Score =
        FracMax({Zero} \cup ClaimedStrategies(ToLower(call.keyword),
                                              ToLower(call.entityName),
                                              splitEntityName(call.entityName)))

\* C20: the score calculateMatchScore returns is a function of the two
\* strings alone, lies between 0 and 1, and is exactly 1 when keyword and
\* entity are the same non-empty string up to letter case.
C20_ScoreRange ==
    ScoreDone =>
      /\ call.score.Score = calculateMatchScore(call.keyword, call.entityName).Score
      /\ FracLeq(Zero, call.score.Score)
      /\ FracLeq(call.score.Score, One)
      /\ call.keyword # <<>> /\ ToLower(call.keyword) = ToLower(call.entityName) =>
           call.score.Score = One

\* A keyword scored against the same name in another letter case.
W_C20_SameUpToCase ==
    /\ ScoreDone
    /\ call.keyword = <<"u","s","e","r","s">>
    /\ call.entityName = <<"U","s","e","r","s">>
    /\ call.score.Score = One
\* ------------------------------------------------------------------------
\* Properties of matchSearchQuery (checked under SpecSearch).

SearchDone == pc = "done" /\ call.op = "matchSearchQuery"

\* The keywords of the query of the call and the tables they match.
SearchKeywords == ExtractKeywords(call.query)
SearchMatches == findSemanticMatches(SearchKeywords, schema)

\* The listing of all tables with their column names.
IsTableListing(sql) ==
    /\ Contains(sql, <<"F","R","O","M"," ","i","n","f","o","r","m","a","t","i","o","n","_","s","c","h","e","m","a",
        ".","t","a","b","l","e","s">>)
    /\ Contains(sql, <<"s","t","r","i","n","g","_","a","g","g","(","c","o","l","u","m","n","_","n","a","m","e">>)
    /\ Contains(sql, <<"F","R","O","M"," ","i","n","f","o","r","m","a","t","i","o","n","_","s","c","h","e","m","a",
        ".","c","o","l","u","m","n","s">>)

\* C21: the keyword-search matcher gives no output exactly when keyword
\* extraction yields no keyword; with at least one keyword and no matching
\* table its output is the listing of all tables with their column names.
C21_DeclinesWithoutKeywords ==
    SearchDone =>
      /\ call.out = <<>> <=> SearchKeywords = <<>>
      /\ SearchKeywords # <<>> /\ SearchMatches = <<>> => IsTableListing(call.out)

\* Keywords were extracted, no table matched, and the listing was given.
W_C21_ListingWithoutMatch ==
    /\ SearchDone
    /\ call.query = <<"f","i","n","d"," ","z","e","b","r","a">>
    /\ Len(schema.Tables) = 3
    /\ IsTableListing(call.out)

\* The matches at most a quarter below the top match, in rank order, five
\* at most.
ClaimedSimilar(matches) ==
    LET near == SortedSeq({k \in 1..Len(matches) :
                    FracLeq(matches[1].Score, FracAdd(matches[k].Score, Frac(1, 4)))})
    IN  AsSeq([k \in 1..Min({5, Len(near)}) |-> matches[near[k]]])

\* The column names every one of the tables has.
ClaimedCommon(members) ==
    LET Names1(m) == {m.Table.Columns[k].Name : k \in 1..Len(m.Table.Columns)}
    IN  {c \in Names1(members[1]) : \A i \in 1..Len(members) : c \in Names1(members[i])}

\* The ways of writing the names of a set in a row.
Orderings(S) ==
    {f \in [1..Cardinality(S) -> S] : \A i, j \in 1..Cardinality(S) : f[i] = f[j] => i = j}

\* One SELECT per member, tagged with '<schema>.<table>', over the given
\* columns, all together limited to 100 rows.
ClaimedUnion(members, cols) ==
    LET quoted == AsSeq([i \in 1..Len(cols) |-> <<"\"">> \o cols[i] \o <<"\"">>])
        One1(m) == <<"S","E","L","E","C","T"," ","'">> \o m.Table.Schema \o <<".">> \o m.Table.Name
                   \o <<"'"," ","a","s"," ","_","s","o","u","r","c","e","_","t","a","b","l","e",","," ">> \o Join(quoted, <<","," ">>)
                   \o <<" ","F","R","O","M"," ","\"">> \o m.Table.Schema \o <<"\"",".","\"">> \o m.Table.Name \o <<"\"">>
    IN  Join(AsSeq([k \in 1..Len(members) |-> One1(members[k])]), <<" ","U","N","I","O","N"," ","A","L","L"," ">>)
        \o <<" ","L","I","M","I","T"," ","1","0","0">>

\* C22: with two or more matched tables of which two or more are similar
\* (within 0.25 of the top score, in rank order, five at most) and share a
\* column, the output is a UNION ALL of one SELECT per similar table, each
\* tagged with '<schema>.<table>' and selecting exactly the common columns,
\* limited to 100 rows in total.
C22_UnionOverCommonColumns ==
    SearchDone /\ Len(SearchMatches) >= 2 =>
      With(ClaimedSimilar(SearchMatches), LAMBDA members :
           Len(members) >= 2 /\ ClaimedCommon(members) # {} =>
             \E cols \in Orderings(ClaimedCommon(members)) :
                call.out = ClaimedUnion(members, cols))

\* Six tables matched alike; the union is over the first five and over the
\* two columns they share.
W_C22_FiveOfSixSimilar ==
    /\ SearchDone
    /\ call.query = <<"f","i","n","d"," ","s","a","l","e","s">>
    /\ Len(SearchMatches) = 6
    /\ Len(ClaimedSimilar(SearchMatches)) = 5
    /\ ClaimedCommon(ClaimedSimilar(SearchMatches)) = {<<"i","d">>, <<"a","m","o","u","n","t">>}
    /\ HasSuffix(call.out, <<"F","R","O","M"," ","\"","p","u","b","l","i","c","\"",".","\"","s","a","l","e","s","_","e",
        "\""," ","L","I","M","I","T"," ","1","0","0">>)

\* The summary row of a matched table.
ClaimedSummaryRow(m) ==
    <<"S","E","L","E","C","T"," ","'">> \o m.Table.Schema \o <<".">> \o m.Table.Name \o <<"'"," ","a","s"," ","t","a","b","l","e","_","n","a","m","e",","," ","'">>
    \o FormatRounded(FracMul(m.Score, <<100, 1>>)) \o <<"%","'"," ","a","s"," ","m","a","t","c","h","_","s","c","o","r","e",","," ","'">>
    \o m.MatchedOn \o <<"'"," ","a","s"," ","m","a","t","c","h","e","d","_","o","n",","," ","C","O","U","N","T","(",
        "*",")"," ","a","s"," ","r","o","w","_","c","o","u","n","t"," ","F","R","O","M"," ","\"">>
    \o m.Table.Schema \o <<"\"",".","\"">> \o m.Table.Name \o <<"\"">>

\* One row per matched table, for the ten highest ranked at most, ordered
\* by row count.
ClaimedSummary(matches) ==
    Join(AsSeq([k \in 1..Min({10, Len(matches)}) |-> ClaimedSummaryRow(matches[k])]),
         <<" ","U","N","I","O","N"," ","A","L","L"," ">>) \o <<" ","O","R","D","E","R"," ","B","Y"," ","r","o","w","_","c","o","u","n","t"," ","D","E","S",
        "C">>

\* C23: with two or more matched tables of which the top one is the only
\* similar one, the output is SELECT * of the top table limited to 50 rows
\* when its score is above 0.6, and otherwise the ranked summary.
C23_SingleTopOrSummary ==
    SearchDone /\ Len(SearchMatches) >= 2
               /\ Len(ClaimedSimilar(SearchMatches)) = 1 =>
      With(SearchMatches, LAMBDA matches :
           IF FracLess(Frac(3, 5), matches[1].Score)
           THEN call.out = <<"S","E","L","E","C","T"," ","*"," ","F","R","O","M"," ","\"">> \o matches[1].Table.Schema \o <<"\"",".","\"">>
                           \o matches[1].Table.Name \o <<"\""," ","L","I","M","I","T"," ","5","0">>
           ELSE call.out = ClaimedSummary(matches))

\* Eleven tables matched, the top one below 0.6 and alone at the top: the
\* summary has ten rows.
W_C23_SummaryOfTen ==
    /\ SearchDone
    /\ call.query = <<"f","i","n","d"," ","a","c","c","o","u","n","t"," ","h","a","s">>
    /\ Len(schema.Tables) = 11
    /\ Len(SearchMatches) = 11
    /\ call.out = ClaimedSummary(SearchMatches)
    /\ ~Contains(call.out, <<"\"","w","1","0","\"">>)
\* ------------------------------------------------------------------------
\* Properties of the spatial matcher and of the numbers the matchers copy
\* from the query (checked under Spec).

\* Whether matcher m ran in the call, and what it gave.
Ran(m) == \E i \in 1..Len(call.tried) : call.tried[i] = m
OutOf(m) ==
    IF Ran(m) THEN call.outs[Min({i \in 1..Len(call.tried) : call.tried[i] = m})]
    ELSE <<>>

\* The schema reports the spatial extension and has a geometry column.
SpatialSchema ==
    /\ ~schema.nil
    /\ schema.HasPostGIS
    /\ \E i \in 1..Len(schema.Tables) :
          \E j \in 1..Len(schema.Tables[i].Columns) :
             schema.Tables[i].Columns[j].IsGeometry

KmUnits == {<<"k","m">>, <<"k","i","l","o","m","e","t","e","r">>, <<"k","i","l","o","m","e","t","e","r","s">>}
MileUnits == {<<"m","i">>, <<"m","i","l","e">>, <<"m","i","l","e","s">>}
MeterUnits == {<<"m">>, <<"m","e","t","e","r">>, <<"m","e","t","e","r","s">>}

\* "within <number><unit>" read off the query: <<number, unit word>>, the
\* unit word being the whole word that follows the number; <<>> when the
\* query holds no such phrase.
WithinPhrase ==
    With(ReFind(Re(2, <<Lit(<<"w","i","t","h","i","n"," ">>),
                        Cap(1, Cat(<<Plus("d"), Opt(Cat(<<Lit(<<".">>), Plus("d")>>))>>)),
                        Star("s"), Cap(2, Plus("w"))>>), Asked),
         LAMBDA m :
             IF m # <<>> /\ m[3] \in KmUnits \cup MileUnits \cup MeterUnits
             THEN <<m[2], m[3]>> ELSE <<>>)

\* C11: with a schema that reports the spatial extension and has a geometry
\* column, every query containing "within <number><unit>" yields SQL that
\* contains an ST_DWithin predicate.
CE_C11_WithinYieldsDWithin ==
    Ruled /\ SpatialSchema /\ WithinPhrase # <<>> =>
      Contains(call.sql, <<"S","T","_","D","W","i","t","h","i","n">>)

\* The multiplier the unit word stands for.
ClaimedMultiplier(unit) ==
    IF unit \in KmUnits THEN <<" ","*"," ","1","0","0","0">>
    ELSE IF unit \in MileUnits THEN <<" ","*"," ","1","6","0","9",".","3","4">>
    ELSE <<>>

\* C12: in a distance query the distance of the ST_DWithin predicate is the
\* captured number times 1000 when the unit word after the number is
\* km/kilometers, times 1609.34 when it is mi/miles, and the number itself
\* when it is m/meters, whatever other words the query contains.
CE_C12_MultiplierFromUnit ==
    Ruled /\ call.by = "spatial" /\ Contains(call.sql, <<"S","T","_","D","W","i","t","h","i","n">>)
          /\ WithinPhrase # <<>> =>
      Contains(call.sql,
               <<":",":","g","e","o","g","r","a","p","h","y",","," ">> \o WithinPhrase[1]
                  \o ClaimedMultiplier(WithinPhrase[2]) \o <<")">>)

IsDigits(s) == s # <<>> /\ \A i \in 1..Len(s) : IsDigit(s[i])

\* Digits, or digits, one point and digits.
IsDecimal(s) ==
    LET dots == {i \in 1..Len(s) : s[i] = "."}
    IN  IF dots = {} THEN IsDigits(s)
        ELSE /\ Cardinality(dots) = 1
             /\ IsDigits(SubSeq(s, 1, Min(dots) - 1))
             /\ IsDigits(SubSeq(s, Min(dots) + 1, Len(s)))

\* The row limit of the SQL of a show/list query: the word after LIMIT.
LimitLiteral(sql) ==
    With(Fields(sql), LAMBDA words :
         IF Len(words) >= 2 /\ words[Len(words) - 1] = <<"L","I","M","I","T">>
         THEN words[Len(words)] ELSE <<>>)

\* The last argument of ST_DWithin, and the number in it: the argument
\* without the multiplier the matcher appends.
DistanceArgument(sql) ==
    LET from == Max({i \in 1..Len(sql) : HasPrefixAt(sql, i, <<":",":","g","e","o","g","r","a","p","h","y",","," ">>)}) + 13
        to == Min({j \in from..Len(sql) : sql[j] = ")"})
    IN  SubSeq(sql, from, to - 1)
DistanceLiteral(sql) ==
    TrimSuffix(TrimSuffix(DistanceArgument(sql), <<" ","*"," ","1","0","0","0">>), <<" ","*"," ","1","6","0","9",".","3","4">>)

\* A show/list query was answered, or a distance query was.
ShowAnswered == Ruled /\ call.by = "show"
DistanceAnswered == Ruled /\ call.by = "spatial" /\ Contains(call.sql, <<"S","T","_","D","W","i","t","h","i","n">>)

FirstLinear(s) ==
    LET linear(i, j) ==
            /\ s.Tables[i].Columns[j].IsGeometry
            /\ s.Tables[i].Columns[j].GeomType \in {<<"L","I","N","E","S","T","R","I","N","G">>, <<"M","U","L","T","I","L","I","N","E","S","T","R","I","N","G">>}
        rows == {i \in 1..Len(s.Tables) : \E j \in 1..Len(s.Tables[i].Columns) : linear(i, j)}
    IN  IF rows = {} THEN <<>>
        ELSE LET i == Min(rows)
             IN  <<s.Tables[i],
                   s.Tables[i].Columns[Min({j \in 1..Len(s.Tables[i].Columns) : linear(i, j)})]>>

\* The two statements of a length query, word by word.
ClaimedTotalLength(table, col) ==
    Fields(<<"S","E","L","E","C","T"," ","S","U","M","(","S","T","_","L","e","n","g","t","h","(","\"">> \o col.Name
           \o <<"\"",":",":","g","e","o","g","r","a","p","h","y",")",")"," ","a","s"," ","t","o","t","a",
        "l","_","l","e","n","g","t","h","_","m","e","t","e","r","s"," ","F","R","O","M"," ","\"">>
           \o table.Schema \o <<"\"",".","\"">> \o table.Name \o <<"\"">>)
ClaimedLengthListing(table, col) ==
    Fields(<<"S","E","L","E","C","T"," ","*",","," ","S","T","_","L","e","n","g","t","h","(","\"">> \o col.Name
           \o <<"\"",":",":","g","e","o","g","r","a","p","h","y",")"," ","a","s"," ","l","e","n","g","t",
        "h","_","m","e","t","e","r","s"," ","F","R","O","M"," ","\"">>
           \o table.Schema \o <<"\"",".","\"">> \o table.Name
           \o <<"\""," ","O","R","D","E","R"," ","B","Y"," ","S","T","_","L","e","n","g","t","h","(","\"">> \o col.Name
           \o <<"\"",":",":","g","e","o","g","r","a","p","h","y",")"," ","D","E","S","C"," ","L","I","M",
        "I","T"," ","5","0">>)

\* A length query reached the spatial matcher and neither the distance nor
\* the area branch answered it.
LengthAsked ==
    /\ Ruled /\ Ran("spatial")
    /\ \/ Contains(Asked, <<"l","e","n","g","t","h">>)
       \/ Contains(Asked, <<"d","i","s","t","a","n","c","e">>)
       \/ Contains(Asked, <<"m","e","t","e","r","s"," ","o","f"," ","r","o","a","d">>)
    /\ ~Contains(OutOf("spatial"), <<"S","T","_","D","W","i","t","h","i","n">>)
    /\ ~Contains(OutOf("spatial"), <<"S","T","_","A","r","e","a">>)

\* C14: a length query that reaches the spatial matcher and is not answered
\* by its distance or area branch uses the first LINESTRING/MULTILINESTRING
\* column in schema order: with "total" or "sum" in the query the output is
\* the single SUM(ST_Length(...)) aggregate without LIMIT, otherwise the
\* listing ordered by ST_Length descending with LIMIT 50.
C14_LengthQuery ==
    LengthAsked =>
      With(FirstLinear(schema), LAMBDA hit :
           IF hit = <<>> THEN OutOf("spatial") = <<>>
           ELSE IF Contains(Asked, <<"t","o","t","a","l">>) \/ Contains(Asked, <<"s","u","m">>)
           THEN Fields(OutOf("spatial")) = ClaimedTotalLength(hit[1], hit[2])
           ELSE Fields(OutOf("spatial")) = ClaimedLengthListing(hit[1], hit[2]))

\* A listing by length was returned from a table whose line geometry comes
\* after another geometry column.
W_C14_ListingOverLaterColumn ==
    /\ LengthAsked
    /\ ~Contains(Asked, <<"t","o","t","a","l">>)
    /\ call.by = "spatial"
    /\ Contains(call.sql, <<"O","R","D","E","R"," ","B","Y"," ","S","T","_","L","e","n","g","t","h","(","\"","g","e",
        "o","m","\"",":",":","g","e","o","g","r","a","p","h","y",")"," ","D","E","S","C">>)
    /\ \E i \in 1..Len(schema.Tables) :
          /\ schema.Tables[i].Columns[2].IsGeometry
          /\ schema.Tables[i].Columns[2].Name = <<"p","t">>
====
